---------------------------- MODULE Spec2Model ----------------------------
(***************************************************************************)
(* A model of codegraph (HousamKak/codegraph): the Python extractor, the   *)
(* graph builder over the Neo4j store, the delete-by-location-prefix, the  *)
(* change flag and its propagation, the conservation-law validators and    *)
(* the real-time driver, with the indexing entry points.                   *)
(*                                                                         *)
(* Strings are sequences of tokens, so that STARTS WITH, ENDS WITH,        *)
(* str.replace and str.split are computed and not assumed.  The tokens of  *)
(* a qualified name are single characters, so the length of the sequence   *)
(* is the length of the string.                                            *)
(*                                                                         *)
(* Spec      : the files, the store, the driver and the entry points.      *)
(* SpecProp  : propagate_changed_flag, one query at a time, on a family of *)
(*             dependency graphs (chains and rings).                       *)
(* SpecParam : the driver and the entry points over a file whose function  *)
(*             changes its parameter list.                                 *)
(* SpecSig   : the driver and the entry points over a file of a sibling    *)
(*             directory, whose function is called with 0 to 3 arguments.  *)
(* SpecLoop  : the watcher's coroutines on the event loop of the server,   *)
(*             an index endpoint and the workflow of another process.      *)
(* SpecFault : the driver with a refused store write and a cancellation.   *)
(* SpecResolve : _resolve_function_name over extractions and stores with   *)
(*             several functions that match the name of a call.            *)
(* SpecWatch : the watcher alone, from start() to stop(), with the fairness *)
(*             of the event loop.                                          *)
(* SpecWs    : the ConnectionManager: clients that connect and disconnect  *)
(*             while a broadcast is suspended on a send.                   *)
(***************************************************************************)
EXTENDS Naturals, Integers, Sequences, FiniteSets, TLC

VARIABLES
    fs,                    \* file path -> version of its content on disk
    nodes,                 \* the store: set of node records
    edges,                 \* the store: set of [from, type, to]
    pc,                    \* position of handle_file_change
    cur,                   \* file_path of the event being handled
    log,                   \* steps the handler has completed for that event
    lastOp,                \* the last operation that finished, and its path
    broadcast,             \* type of the last websocket message sent
    validBefore,           \* full validation was clean when the event began
    iterations,            \* propagate_changed_flag: iterations
    qi,                    \* propagate_changed_flag: next query of the list
    iteration_propagated,  \* propagate_changed_flag: count of this iteration
    total_propagated,      \* propagate_changed_flag: count returned
    ppc,                   \* propagate_changed_flag: position
    seed,                  \* ids marked before propagate_changed_flag runs
    graph,                 \* which dependency graph the store holds
    pending,               \* watcher: the keys of _pending_changes
    debounce,              \* watcher: the task of _process_pending_changes
    deleted,               \* the handle_file_change coroutines of on_deleted
    wf,                    \* the workflow process: position and file
    running,               \* FileWatcher._running
    callee,                \* _resolve_function_name: the name of the call
    entity_map,            \* _resolve_function_name: the entities, in dict order
    resolved,              \* _resolve_function_name: the id returned
    active_connections,    \* ConnectionManager.active_connections
    accepted,              \* the websockets that connect has accepted so far
    sending                \* the coroutine of ConnectionManager.broadcast

vars ==
    <<fs, nodes, edges, pc, cur, log, lastOp, broadcast, validBefore,
      iterations, qi, iteration_propagated, total_propagated, ppc, seed, graph,
      pending, debounce, deleted, wf, running, callee, entity_map, resolved,
      active_connections, accepted, sending>>

driverVars == <<fs, pc, cur, log, lastOp, broadcast, validBefore>>

propVars == <<iterations, qi, iteration_propagated, total_propagated, ppc, seed, graph>>

loopVars == <<pending, debounce, deleted, wf, running>>

resolveVars == <<callee, entity_map, resolved>>

wsVars == <<active_connections, accepted, sending>>

----------------------------------------------------------------------------
(* Strings *)

StartsWith(s, prefix) ==
    /\ Len(prefix) <= Len(s)
    /\ SubSeq(s, 1, Len(prefix)) = prefix

EndsWith(s, suffix) ==
    /\ Len(suffix) <= Len(s)
    /\ SubSeq(s, Len(s) - Len(suffix) + 1, Len(s)) = suffix

\* s.split('.')[-1]
LastDotted(s) ==
    LET dots == {i \in 1..Len(s) : s[i] = "."}
        k == IF dots = {} THEN 0 ELSE CHOOSE i \in dots : \A j \in dots : j <= i
    IN  SubSeq(s, k + 1, Len(s))

RECURSIVE JoinWith(_, _)
JoinWith(parts, sep) ==
    IF Len(parts) = 0 THEN <<>>
    ELSE IF Len(parts) = 1 THEN parts[1]
    ELSE parts[1] \o <<sep>> \o JoinWith(Tail(parts), sep)

\* md5(":".join(parts))[:16], taken as collision-free: the joined string itself
MakeId(parts) == JoinWith(parts, ":")

\* file_path.replace(os.sep, '.').replace('.py', '')
GetModuleName(file_path) ==
    LET kept == SelectSeq(file_path, LAMBDA t : t # ".py")
    IN  [i \in 1..Len(kept) |-> IF kept[i] = "/" THEN "." ELSE kept[i]]

\* os.path.basename(file_path).replace('.py', '')
BaseName(file_path) ==
    LET seps == {i \in 1..Len(file_path) : file_path[i] = "/"}
        k == IF seps = {} THEN 0 ELSE CHOOSE i \in seps : \A j \in seps : j <= i
    IN  SelectSeq(SubSeq(file_path, k + 1, Len(file_path)), LAMBDA t : t # ".py")

\* f"{file_path}:{lineno}:{col_offset}"
GetLocation(file_path, lineno, col_offset) ==
    file_path \o <<":", lineno, ":", col_offset>>

----------------------------------------------------------------------------
(* The files on disk.  A source text is the sequence of the statements of  *)
(* its module body; a call is written on a literal receiver (''.h()), so   *)
(* it is an ast.Attribute call and loads no name.                          *)

WatchDir == <<"/", "p">>
PathX == WatchDir \o <<"/", "x", ".py">>
PathY == WatchDir \o <<"/", "y", ".py">>
Files == {PathX, PathY}
Versions == {"v1", "v2"}

\* a project of one file whose function changes its parameter list
PathZ == WatchDir \o <<"/", "z", ".py">>
ParamVersions == {"v1", "v2", "v3"}

\* a file of the directory /pq, next to the watched directory /p: empty at
\* first, then a function and a caller of it with 0, 1, 2 and 3 arguments
PathW == <<"/", "p", "q", "/", "w", ".py">>
SigVersions == {"v0", "v1", "v2", "v3"}

\* os.path.isfile(path), for the paths of the projects
IsFile(path) == EndsWith(path, <<".py">>)

\* ast.arg: the name of a parameter and its column; default is the text of
\* the default the extractor pairs with it (<<>>: None)
Arg(arg, col_offset) == [arg |-> arg, col_offset |-> col_offset, default |-> <<>>]

\* ast.arguments: the regular parameters, *vararg and **kwarg (<<>>: none),
\* and the defaults of the last regular parameters
Arguments(args, vararg, kwarg) ==
    [args |-> args, vararg |-> vararg, kwarg |-> kwarg, defaults |-> <<>>]

NoArguments == Arguments(<<>>, <<>>, <<>>)

ImportStmt(name, lineno) ==
    [kind |-> "import", name |-> name, lineno |-> lineno,
     returns |-> <<>>, calls |-> <<>>, args |-> NoArguments]

DefStmt(name, lineno, returns, calls) ==
    [kind |-> "def", name |-> name, lineno |-> lineno,
     returns |-> returns, calls |-> calls, args |-> NoArguments]

CallExpr(attr, lineno, col_offset) ==
    [callee_name |-> <<"''", ".">> \o attr, lineno |-> lineno,
     col_offset |-> col_offset, arg_count |-> 0]

\* x.py: "import os / def f() -> int / def g() -> int: ''.h()", then g removed
\* y.py: "import os / def h() -> int / def k() -> int: ''.f()"
\* z.py: "def f(a, b) -> int", then "def f(b) -> int", then
\*       "def f(a, *rest, **opts) -> int"
\* w.py: "", then "def f(a, b=1) -> int", then "def command(a) -> int", then
\*       "def f(*args, **kwargs) -> int", each followed by
\*       "def g() -> int: ''.f(); ''.f(1); ''.f(1, 2); ''.f(1, 2, 3)" (''.command
\*       for command)
Source(file_path, version) ==
    IF file_path = PathX THEN
        IF version = "v1" THEN
            << ImportStmt(<<"os">>, "1"),
               DefStmt(<<"f">>, "2", <<"int">>, <<>>),
               DefStmt(<<"g">>, "4", <<"int">>, <<CallExpr(<<"h">>, "5", "4")>>) >>
        ELSE
            << ImportStmt(<<"os">>, "1"),
               DefStmt(<<"f">>, "2", <<"int">>, <<>>) >>
    ELSE IF file_path = PathY THEN
        << ImportStmt(<<"os">>, "1"),
           DefStmt(<<"h">>, "2", <<"int">>, <<>>),
           DefStmt(<<"k">>, "4", <<"int">>, <<CallExpr(<<"f">>, "5", "4")>>) >>
    ELSE IF file_path = PathZ THEN
        << [DefStmt(<<"f">>, "1", <<"int">>, <<>>) EXCEPT !.args =
              IF version = "v1"
              THEN Arguments(<<Arg(<<"a">>, "6"), Arg(<<"b">>, "9")>>, <<>>, <<>>)
              ELSE IF version = "v2"
              THEN Arguments(<<Arg(<<"b">>, "6")>>, <<>>, <<>>)
              ELSE Arguments(<<Arg(<<"a">>, "6")>>, Arg(<<"rest">>, "10"),
                             Arg(<<"opts">>, "18"))] >>
    ELSE IF version = "v0" THEN <<>>
    ELSE
        LET name == IF version = "v2" THEN <<"c", "o", "m", "m", "a", "n", "d">>
                    ELSE <<"f">>
            calls == [k \in 1..4 |->
                        [CallExpr(name, ToString(3 + k), "4") EXCEPT !.arg_count = k - 1]]
        IN  << [DefStmt(name, "1", <<"int">>, <<>>) EXCEPT !.args =
                  IF version = "v1"
                  THEN [Arguments(<<Arg(<<"a">>, "6"), Arg(<<"b">>, "9")>>, <<>>, <<>>)
                            EXCEPT !.defaults = << <<"1">> >>]
                  ELSE IF version = "v2"
                  THEN Arguments(<<Arg(<<"a">>, "12")>>, <<>>, <<>>)
                  ELSE Arguments(<<>>, Arg(<<"args">>, "7"), Arg(<<"kwargs">>, "15"))],
               DefStmt(<<"g">>, "3", <<"int">>, calls) >>

----------------------------------------------------------------------------
(* The extractor (parser.py).  An extraction is the entities dict, in      *)
(* insertion order, and the relationships list.  A loop of the code is a   *)
(* recursion over the sequence it walks; CHOOSE result \in {F(next) :      *)
(* next \in {step}} : TRUE is F(step) with the step computed first, as the *)
(* statement before the next iteration.                                    *)

Entity(label, id, name, qualified_name, location) ==
    [label |-> label, id |-> id, name |-> name,
     qualified_name |-> qualified_name, location |-> location,
     is_external |-> FALSE, return_type |-> <<>>, arg_count |-> 0,
     default_value |-> <<>>]

\* properties: the position of a HAS_PARAMETER relationship, -1 for none
Relationship(from_id, rel_type, to_id) ==
    [from_id |-> from_id, rel_type |-> rel_type, to_id |-> to_id,
     position |-> -1]

HasKey(entities, id) == \E i \in 1..Len(entities) : entities[i].id = id

\* self.entities[id] = entity: a present key keeps its place in the dict
DictPut(entities, entity) ==
    IF HasKey(entities, entity.id)
    THEN [i \in 1..Len(entities) |->
            IF entities[i].id = entity.id THEN entity ELSE entities[i]]
    ELSE Append(entities, entity)

EmptyExtraction == [entities |-> <<>>, relationships |-> <<>>]

\* the placeholder Module of an imported name, stamped with the importing
\* file's path and the line of the import
EnsureImportTarget(acc, qualified_name, file_path, lineno) ==
    LET target_id == MakeId(<<qualified_name>>)
        module_entity ==
            [Entity("Module", target_id, LastDotted(qualified_name), qualified_name,
                    file_path \o <<":", lineno, ":", "0">>)
             EXCEPT !.is_external = TRUE]
    IN  IF HasKey(acc.entities, target_id) THEN acc
        ELSE [acc EXCEPT !.entities = Append(@, module_entity)]

\* import x
VisitImport(acc, st, file_path, module_id) ==
    LET with_target == EnsureImportTarget(acc, st.name, file_path, st.lineno)
    IN  [with_target EXCEPT !.relationships =
            Append(@, Relationship(module_id, "IMPORTS", MakeId(<<st.name>>)))]

\* one call expression of a function body
VisitCall(acc, call, file_path, caller_id) ==
    LET callsite_id ==
            MakeId(<<caller_id, call.callee_name, <<call.lineno>>, <<call.col_offset>>>>)
        callsite_entity ==
            [Entity("CallSite", callsite_id,
                    <<"call_">> \o call.callee_name \o <<"@", call.lineno>>, <<>>,
                    GetLocation(file_path, call.lineno, call.col_offset))
             EXCEPT !.arg_count = call.arg_count]
    IN  [entities |-> DictPut(acc.entities, callsite_entity),
         relationships |-> acc.relationships \o
            << Relationship(caller_id, "HAS_CALLSITE", callsite_id),
               Relationship(callsite_id, "CALLS_UNRESOLVED",
                            <<"unresolved:">> \o call.callee_name) >>]

RECURSIVE VisitCalls(_, _, _, _)
VisitCalls(acc, calls, file_path, caller_id) ==
    IF calls = <<>> THEN acc
    ELSE CHOOSE result \in
            {VisitCalls(next, Tail(calls), file_path, caller_id) :
                next \in {VisitCall(acc, Head(calls), file_path, caller_id)}} : TRUE

\* one parameter at its position: the Parameter entity, whose id is made of
\* the function, the name and the position, and its HAS_PARAMETER relationship
VisitParameter(acc, arg, position, func_id, file_path, lineno) ==
    LET param_id == MakeId(<<func_id, arg.arg, <<ToString(position)>>>>)
        param_entity ==
            [Entity("Parameter", param_id, arg.arg, <<>>,
                    GetLocation(file_path, lineno, arg.col_offset))
             EXCEPT !.default_value = arg.default]
    IN  [entities |-> DictPut(acc.entities, param_entity),
         relationships |-> Append(acc.relationships,
            [Relationship(func_id, "HAS_PARAMETER", param_id)
                EXCEPT !.position = position])]

\* the regular parameters from the given position on
RECURSIVE VisitRegularParameters(_, _, _, _, _, _)
VisitRegularParameters(acc, args, position, func_id, file_path, lineno) ==
    IF args = <<>> THEN acc
    ELSE CHOOSE result \in
            {VisitRegularParameters(next, Tail(args), position + 1,
                                    func_id, file_path, lineno) :
                next \in {VisitParameter(acc, Head(args), position,
                                         func_id, file_path, lineno)}} : TRUE

\* _visit_parameters: args.args from position 0, the last len(args.defaults)
\* of them with their default, then *vararg, then **kwarg
VisitParameters(acc, args, func_id, file_path, lineno) ==
    LET first_default == Len(args.args) - Len(args.defaults)
        with_defaults ==
            [i \in 1..Len(args.args) |->
                IF i - 1 >= first_default
                THEN [args.args[i] EXCEPT !.default = args.defaults[i - first_default]]
                ELSE args.args[i]]
        regular == VisitRegularParameters(acc, with_defaults, 0, func_id, file_path, lineno)
        after_args == Len(args.args)
        with_vararg ==
            IF args.vararg # <<>>
            THEN VisitParameter(regular, args.vararg, after_args,
                                func_id, file_path, lineno)
            ELSE regular
        after_vararg == IF args.vararg # <<>> THEN after_args + 1 ELSE after_args
    IN  IF args.kwarg # <<>>
        THEN VisitParameter(with_vararg, args.kwarg, after_vararg,
                            func_id, file_path, lineno)
        ELSE with_vararg

\* def name(args) -> returns: the parameters, the Function entity, then the
\* calls of its body
VisitFunction(acc, st, file_path, current_module) ==
    LET qualified_name == current_module \o <<".">> \o st.name
        func_id == MakeId(<<qualified_name>>)
        func_entity ==
            [Entity("Function", func_id, st.name, qualified_name,
                    GetLocation(file_path, st.lineno, "0"))
             EXCEPT !.return_type = st.returns]
        with_parameters == VisitParameters(acc, st.args, func_id, file_path, st.lineno)
    IN  VisitCalls([with_parameters EXCEPT !.entities = DictPut(@, func_entity)],
                   st.calls, file_path, func_id)

\* the module body, statement by statement; a function is followed by the
\* DECLARES relationship of its module
RECURSIVE VisitModule(_, _, _, _, _)
VisitModule(acc, body, file_path, current_module, module_id) ==
    IF body = <<>> THEN acc
    ELSE LET st == Head(body)
             visited ==
                IF st.kind = "import" THEN VisitImport(acc, st, file_path, module_id)
                ELSE [VisitFunction(acc, st, file_path, current_module)
                        EXCEPT !.relationships =
                            Append(@, Relationship(module_id, "DECLARES",
                                MakeId(<<current_module \o <<".">> \o st.name>>)))]
         IN  CHOOSE result \in
                {VisitModule(next, Tail(body), file_path, current_module, module_id) :
                    next \in {visited}} : TRUE

BuiltinTypes == {<<"str">>, <<"int">>, <<"float">>, <<"bool">>, <<"None">>}

\* the Type entity of an annotation: builtins are located at "builtins",
\* other names at the name of the module, never under the file's path
GetOrCreateType(acc, type_str, context_module) ==
    LET module_name == IF type_str \in BuiltinTypes THEN <<"builtins">> ELSE context_module
        type_id == MakeId(<<module_name, type_str>>)
    IN  [acc EXCEPT !.entities =
            DictPut(@, Entity("Type", type_id, type_str, <<>>, module_name))]

\* after the walk: a RETURNS_TYPE relationship for every annotated function,
\* over list(self.entities.items()) as it was when the loop began
RECURSIVE CreateTypeRelationships(_, _, _)
CreateTypeRelationships(acc, snapshot, current_module) ==
    IF snapshot = <<>> THEN acc
    ELSE LET entity == Head(snapshot)
             module_name == IF entity.return_type \in BuiltinTypes
                            THEN <<"builtins">> ELSE current_module
             typed ==
                IF entity.label = "Function" /\ entity.return_type # <<>>
                THEN [GetOrCreateType(acc, entity.return_type, current_module)
                        EXCEPT !.relationships =
                            Append(@, Relationship(entity.id, "RETURNS_TYPE",
                                MakeId(<<module_name, entity.return_type>>)))]
                ELSE acc
         IN  CHOOSE result \in
                {CreateTypeRelationships(next, Tail(snapshot), current_module) :
                    next \in {typed}} : TRUE

ParseSource(source, file_path) ==
    LET current_module == GetModuleName(file_path)
        module_id == MakeId(<<current_module>>)
        module_entity ==
            Entity("Module", module_id, BaseName(file_path), current_module, file_path)
        walked == VisitModule([entities |-> <<module_entity>>, relationships |-> <<>>],
                              source, file_path, current_module, module_id)
    IN  CreateTypeRelationships(walked, walked.entities, current_module)

\* a file that cannot be read ("absent") gives the empty extraction
ParseFile(files, file_path) ==
    IF files[file_path] = "absent" THEN EmptyExtraction
    ELSE ParseSource(Source(file_path, files[file_path]), file_path)

\* all_entities.update(entities): a present key keeps its place and takes
\* the new value, the other keys are added in their order
DictUpdate(all_entities, entities) ==
    LET updated(old) ==
            IF HasKey(entities, old.id)
            THEN entities[CHOOSE j \in 1..Len(entities) : entities[j].id = old.id]
            ELSE old
    IN  [i \in 1..Len(all_entities) |-> updated(all_entities[i])]
        \o SelectSeq(entities, LAMBDA e : ~HasKey(all_entities, e.id))

\* os.walk lists the files in an order the file system chooses
WalkOrders == {<<PathX, PathY>>, <<PathY, PathX>>}

RECURSIVE ParseDirectory(_, _)
ParseDirectory(files, walk) ==
    IF walk = <<>> THEN EmptyExtraction
    ELSE LET first == ParseFile(files, Head(walk))
             rest == ParseDirectory(files, Tail(walk))
         IN  [entities |-> DictUpdate(first.entities, rest.entities),
              relationships |-> first.relationships \o rest.relationships]

----------------------------------------------------------------------------
(* The store (db.py) and the builder (builder.py).  A store is a record    *)
(* [nodes, edges]; a node carries the properties the builder sets, the     *)
(* change flag (FALSE: absent or false) and resolution_status ("null":     *)
(* absent).                                                                 *)

EmptyStore == [nodes |-> {}, edges |-> {}]

Ids(N) == {n.id : n \in N}

\* a relationship of the store with its position property (-1: absent)
Edge(from, type, to) ==
    [from |-> from, type |-> type, to |-> to, position |-> -1]

\* MATCH (n) DETACH DELETE n
ClearDatabase(S) == EmptyStore

\* MATCH (n) WHERE n.location STARTS WITH $file_path DETACH DELETE n
DeleteNodesFromFile(S, file_path) ==
    LET kept == {n \in S.nodes : ~StartsWith(n.location, file_path)}
    IN  [nodes |-> kept,
         edges |-> {e \in S.edges : e.from \in Ids(kept) /\ e.to \in Ids(kept)}]

\* MERGE (n:Label {id: $id}) SET n.k = $k ...: a node that exists keeps the
\* properties the SET does not name; return_type and default_value are set
\* only when truthy
CreateNode(S, entity) ==
    LET old == {n \in S.nodes : n.label = entity.label /\ n.id = entity.id}
        fresh == [label |-> entity.label, id |-> entity.id, name |-> entity.name,
                  qualified_name |-> entity.qualified_name,
                  location |-> entity.location, is_external |-> entity.is_external,
                  return_type |-> entity.return_type, arg_count |-> entity.arg_count,
                  default_value |-> entity.default_value,
                  changed |-> FALSE, resolution_status |-> "null"]
        merged(n) == [fresh EXCEPT !.changed = n.changed,
                                   !.resolution_status = n.resolution_status,
                                   !.default_value = IF entity.default_value # <<>>
                                                     THEN entity.default_value
                                                     ELSE n.default_value,
                                   !.return_type = IF entity.return_type # <<>>
                                                   THEN entity.return_type
                                                   ELSE n.return_type]
    IN  [S EXCEPT !.nodes = IF old = {} THEN @ \cup {fresh}
                            ELSE (@ \ old) \cup {merged(n) : n \in old}]

\* ORDER BY priority, size(f.qualified_name) LIMIT 1 over the functions that
\* match: 0 the qualified name, 1 its suffix, 2 the simple name
ResolvePriority(f, callee_name) ==
    LET simple_name == LastDotted(callee_name)
        qualified_suffix == IF \E i \in 1..Len(callee_name) : callee_name[i] = "."
                            THEN <<".">> \o callee_name ELSE <<".">> \o simple_name
    IN  IF f.qualified_name = callee_name THEN 0
        ELSE IF EndsWith(f.qualified_name, qualified_suffix) THEN 1
        ELSE IF f.name = simple_name THEN 2
        ELSE 3

ResolveCandidates(S, callee_name) ==
    LET matching == {f \in S.nodes :
                        f.label = "Function" /\ ResolvePriority(f, callee_name) < 3}
    IN  {f \in matching : \A g \in matching :
            \/ ResolvePriority(f, callee_name) < ResolvePriority(g, callee_name)
            \/ /\ ResolvePriority(f, callee_name) = ResolvePriority(g, callee_name)
               /\ Len(f.qualified_name) <= Len(g.qualified_name)}

\* the id of the first row, <<>> for None
ResolveFunctionId(S, callee_name) ==
    IF callee_name = <<>> \/ ResolveCandidates(S, callee_name) = {} THEN <<>>
    ELSE (CHOOSE f \in ResolveCandidates(S, callee_name) : TRUE).id

\* the first FunctionEntity of the extraction whose name is the callee or
\* whose qualified name ends with "." + callee, else the store's answer
ResolveFunctionName(S, name, entities) ==
    LET hits == {i \in 1..Len(entities) :
                    /\ entities[i].label = "Function"
                    /\ \/ entities[i].name = name
                       \/ EndsWith(entities[i].qualified_name, <<".">> \o name)}
    IN  IF hits # {} THEN entities[CHOOSE i \in hits : \A j \in hits : i <= j].id
        ELSE ResolveFunctionId(S, name)

\* MATCH (cs {id}), (f {id}) MERGE (cs)-[:CALLS]->(f), MERGE (cs)-[:RESOLVES_TO]->(f);
\* without a target: SET cs.resolution_status = 'unresolved'
CreateResolvedCall(S, callsite_id, resolved_id) ==
    IF resolved_id # <<>> THEN
        IF callsite_id \in Ids(S.nodes) /\ resolved_id \in Ids(S.nodes)
        THEN [S EXCEPT !.edges = @ \cup {Edge(callsite_id, "CALLS", resolved_id),
                                         Edge(callsite_id, "RESOLVES_TO", resolved_id)}]
        ELSE S
    ELSE [S EXCEPT !.nodes =
            {IF n.id = callsite_id THEN [n EXCEPT !.resolution_status = "unresolved"]
             ELSE n : n \in @}]

\* MATCH (a {id: $from_id}), (b {id: $to_id}) MERGE (a)-[r:TYPE]->(b)
\* SET r.k = $k for the properties of the relationship
CreateRelationship(S, rel, entities) ==
    IF rel.rel_type = "CALLS_UNRESOLVED" /\ StartsWith(rel.to_id, <<"unresolved:">>)
    THEN CreateResolvedCall(S, rel.from_id,
            ResolveFunctionName(S, Tail(rel.to_id), entities))
    ELSE IF rel.from_id \in Ids(S.nodes) /\ rel.to_id \in Ids(S.nodes)
         THEN LET matched == {e \in S.edges : /\ e.from = rel.from_id
                                               /\ e.type = rel.rel_type
                                               /\ e.to = rel.to_id}
                  merged == [Edge(rel.from_id, rel.rel_type, rel.to_id)
                                EXCEPT !.position = rel.position]
              IN  IF rel.position = -1
                  THEN [S EXCEPT !.edges = IF matched = {} THEN @ \cup {merged} ELSE @]
                  ELSE [S EXCEPT !.edges = (@ \ matched) \cup {merged}]
         ELSE S

RECURSIVE CreateNodes(_, _)
CreateNodes(S, entities) ==
    IF entities = <<>> THEN S
    ELSE CHOOSE result \in
            {CreateNodes(next, Tail(entities)) :
                next \in {CreateNode(S, Head(entities))}} : TRUE

RECURSIVE CreateRelationships(_, _, _)
CreateRelationships(S, relationships, entities) ==
    IF relationships = <<>> THEN S
    ELSE CHOOSE result \in
            {CreateRelationships(next, Tail(relationships), entities) :
                next \in {CreateRelationship(S, Head(relationships), entities)}} : TRUE

\* first pass the nodes, second pass the relationships
BuildGraph(S, extraction) ==
    CreateRelationships(CreateNodes(S, extraction.entities),
                        extraction.relationships, extraction.entities)

----------------------------------------------------------------------------
(* The change flag (db.py).  A query is one MATCH .. WHERE .. SET: the     *)
(* MATCH reads the store as the previous query left it.                    *)

\* ids of the nodes of a label ("any": every label) with the flag as given
Sel(S, label, flag) ==
    {n.id : n \in {m \in S.nodes : (label = "any" \/ m.label = label) /\ m.changed = flag}}

SelAny(S, label) == {n.id : n \in {m \in S.nodes : m.label = label}}

\* a SET that would also clear the flag of the nodes it does not select
SetChangedOnly(S, label, ids) ==
    [S EXCEPT !.nodes =
        {IF label = "any" \/ n.label = label
         THEN [n EXCEPT !.changed = (n.id \in ids)] ELSE n : n \in @}]

\* SET n.changed = true on the nodes of the label with the ids given
SetChanged(S, label, ids) ==
    [S EXCEPT !.nodes =
        {IF n.id \in ids /\ (label = "any" \/ n.label = label)
         THEN [n EXCEPT !.changed = TRUE] ELSE n : n \in @}]

\* MATCH (n) WHERE n.location STARTS WITH $file_path SET n.changed = true
MarkFileNodesChanged(S, file_path) ==
    [S EXCEPT !.nodes =
        {IF StartsWith(n.location, file_path) THEN [n EXCEPT !.changed = TRUE] ELSE n
         : n \in @}]

\* MATCH (n) WHERE n.changed = true REMOVE n.changed
ClearChangedFlags(S) ==
    [S EXCEPT !.nodes = {[n EXCEPT !.changed = FALSE] : n \in @}]

GetChangedNodeIds(S) == {n.id : n \in {m \in S.nodes : m.changed}}

\* a query over one edge: the changed end marks the other end
EdgeQuery(type, from_label, to_label, source) ==
    [kind |-> "edge", type |-> type, from_label |-> from_label,
     to_label |-> to_label, source |-> source]

\* the query over caller -HAS_CALLSITE-> cs -CALLS-> callee
PathQuery == [kind |-> "path", type |-> "CALLS", from_label |-> "Function",
              to_label |-> "Function", source |-> "to"]

\* propagation_queries of propagate_changed_flag, in the order of the list
PropagationQueries ==
    << EdgeQuery("CALLS", "CallSite", "Function", "to"),
       EdgeQuery("RESOLVES_TO", "CallSite", "Function", "to"),
       PathQuery,
       EdgeQuery("INHERITS", "Class", "Class", "to"),
       EdgeQuery("DEFINES", "Class", "Function", "from"),
       EdgeQuery("HAS_PARAMETER", "Function", "Parameter", "from"),
       EdgeQuery("IMPORTS", "Module", "Module", "to"),
       EdgeQuery("DECLARES", "Module", "any", "from") >>

\* the rows a query matches: the source end is changed, the other end is not
QueryRows(S, q) ==
    IF q.kind = "edge" THEN
        {e \in S.edges :
            /\ e.type = q.type
            /\ e.from \in Sel(S, q.from_label, q.source = "from")
            /\ e.to \in Sel(S, q.to_label, q.source = "to")}
    ELSE
        {p \in {e \in S.edges : e.type = "HAS_CALLSITE"}
                \X {e \in S.edges : e.type = "CALLS"} :
            /\ p[1].to = p[2].from
            /\ p[1].from \in Sel(S, "Function", FALSE)
            /\ p[1].to \in SelAny(S, "CallSite")
            /\ p[2].to \in Sel(S, "Function", TRUE)}

\* the nodes the query sets changed
QueryTargets(S, q) ==
    IF q.kind = "edge" THEN
        {IF q.source = "to" THEN e.from ELSE e.to : e \in QueryRows(S, q)}
    ELSE {p[1].from : p \in QueryRows(S, q)}

\* session.run(query): the store after it, and the count it returns
RunQuery(S, q) ==
    [store |-> SetChanged(S, IF q.source = "to" THEN q.from_label ELSE q.to_label,
                          QueryTargets(S, q)),
     count |-> Cardinality(QueryRows(S, q))]

RECURSIVE RunQueries(_, _, _)
RunQueries(S, queries, count) ==
    IF queries = <<>> THEN [store |-> S, count |-> count]
    ELSE CHOOSE result \in
            {RunQueries(r.store, Tail(queries), count + r.count) :
                r \in {RunQuery(S, Head(queries))}} : TRUE

max_iterations == 10

\* the loop without its cap
UncappedLoopGuard(n) == TRUE

\* while iterations < max_iterations
LoopGuard(n) == n < max_iterations

RECURSIVE PropagateLoop(_, _, _, _)
PropagateLoop(S, n, total, queries) ==
    IF ~LoopGuard(n) THEN [store |-> S, total |-> total, iterations |-> n]
    ELSE CHOOSE result \in
            {IF r.count = 0 THEN [store |-> S, total |-> total, iterations |-> n]
             ELSE PropagateLoop(r.store, n + 1, total + r.count, queries) :
                r \in {RunQueries(S, queries, 0)}} : TRUE

\* propagate_changed_flag with the queries listed in the given order
PropagateChangedFlagWith(S, queries) == PropagateLoop(S, 0, 0, queries)

PropagateChangedFlag(S) == PropagateChangedFlagWith(S, PropagationQueries).store

\* propagate_changes_to_dependents: four queries, run once each
DependentQueries ==
    << EdgeQuery("RESOLVES_TO", "CallSite", "Function", "to"),
       EdgeQuery("RESOLVES_TO", "CallSite", "Function", "from"),
       EdgeQuery("IMPORTS", "Module", "Module", "to"),
       EdgeQuery("INHERITS", "Class", "Class", "to") >>

PropagateChangesToDependents(S) == RunQueries(S, DependentQueries, 0).store

----------------------------------------------------------------------------
(* The validators (validators.py, query.py).  A violation is a record      *)
(* [law, check, entity_id, severity].  The files of this model declare     *)
(* public, undecorated functions, and no class and no variable: the checks *)
(* that range over Variable and Decorator nodes have nothing to range over *)
(* and are not written out.                                                 *)

Violation(law, check, entity_id, severity) ==
    [law |-> law, check |-> check, entity_id |-> entity_id, severity |-> severity]

OfLabel(S, label) == {n \in S.nodes : n.label = label}

Targets(S, from, type, to_label) ==
    {e.to : e \in {d \in S.edges : d.from = from /\ d.type = type
                                    /\ d.to \in SelAny(S, to_label)}}

Contains(s, sub) ==
    \E i \in 1..Len(s) : i + Len(sub) - 1 <= Len(s) /\ SubSeq(s, i, i + Len(sub) - 1) = sub

\* 'cli.' or 'command' in the qualified name
HasTransformingDecorator(f) ==
    \/ Contains(f.qualified_name, <<"c", "l", "i", ".">>)
    \/ Contains(f.qualified_name, <<"c", "o", "m", "m", "a", "n", "d">>)

\* (caller:Function)-[:HAS_CALLSITE]->(cs:CallSite)-[:RESOLVES_TO]->(callee {id})
FindCallers(S, function_id) ==
    {cs \in OfLabel(S, "CallSite") :
        /\ Edge(cs.id, "RESOLVES_TO", function_id) \in S.edges
        /\ \E caller \in OfLabel(S, "Function") :
              Edge(caller.id, "HAS_CALLSITE", cs.id) \in S.edges}

\* get_function_signature, then params_to_check: the rows of HAS_PARAMETER
\* to a Parameter, without the first in position when it is named self (no
\* function of the files is a classmethod, a staticmethod or a property)
ParamsToCheck(S, func_id) ==
    LET params == {e \in S.edges : /\ e.type = "HAS_PARAMETER"
                                   /\ e.from = func_id
                                   /\ e.to \in SelAny(S, "Parameter")}
        first == {e \in params : \A d \in params : e.position <= d.position}
        named_self == {e \in first : \E p \in OfLabel(S, "Parameter") :
                                        p.id = e.to /\ p.name = <<"self">>}
    IN  IF named_self = {} THEN params
        ELSE params \ {CHOOSE e \in named_self : TRUE}

\* the parameters to check that have no default_value
RequiredParams(S, func_id) ==
    {e \in ParamsToCheck(S, func_id) :
        \E p \in OfLabel(S, "Parameter") : p.id = e.to /\ p.default_value = <<>>}

\* the pairs of a function and a call site of a caller for which the arity
\* check appends a violation: arg_count < required_params or > total_params
ArityMismatches(S, functions) ==
    UNION {{<<f.id, cs.id>> :
                cs \in {c \in FindCallers(S, f.id) :
                          \/ c.arg_count < Cardinality(RequiredParams(S, f.id))
                          \/ c.arg_count > Cardinality(ParamsToCheck(S, f.id))}} :
            f \in {g \in functions : ~HasTransformingDecorator(g)}}

\* the violation carries the id of the function
SignatureViolations(S, functions) ==
    {Violation("signature", "arity", m[1], "error") : m \in ArityMismatches(S, functions)}

ValidateSignatureConservation(S) == SignatureViolations(S, OfLabel(S, "Function"))

ValidateSignatureConservationIncremental(S) ==
    SignatureViolations(S, {f \in OfLabel(S, "Function") : f.changed})

\* MATCH (n) WHERE NOT (n)-[]-()
FindOrphanedNodes(S) ==
    {n \in S.nodes : ~\E e \in S.edges : e.from = n.id \/ e.to = n.id}

ValidateReferenceIntegrity(S) ==
    {Violation("reference", "orphan", n.id, "warning") :
        n \in {m \in FindOrphanedNodes(S) : m.label \notin {"Parameter", "Type"}}}
    \cup
    \* resolution_status IS NULL OR <> 'unresolved', and not exactly one target
    {Violation("reference", "resolves_to", cs.id, "error") :
        cs \in {c \in OfLabel(S, "CallSite") :
                 /\ c.resolution_status = "null" \/ c.resolution_status # "unresolved"
                 /\ Cardinality(Targets(S, c.id, "RESOLVES_TO", "Function")) # 1}}
    \cup
    {Violation("reference", "unresolved_call", cs.id, "error") :
        cs \in {c \in OfLabel(S, "CallSite") : c.resolution_status = "unresolved"}}
    \cup
    {Violation("reference", "unresolved_node", u.id, "error") :
        u \in OfLabel(S, "Unresolved")}

\* cs.resolution_status <> 'unresolved' is NULL, so not true, on a node
\* without the property
CypherNotEqual(value, other) == value # "null" /\ value # other

ValidateReferenceIntegrityIncremental(S) ==
    {Violation("reference", "unresolved_call", cs.id, "error") :
        cs \in {c \in OfLabel(S, "CallSite") :
                 c.changed /\ c.resolution_status = "unresolved"}}
    \cup
    {Violation("reference", "resolves_to", cs.id, "error") :
        cs \in {c \in OfLabel(S, "CallSite") :
                 /\ c.changed
                 /\ Cardinality(Targets(S, c.id, "RESOLVES_TO", "Function")) # 1
                 /\ CypherNotEqual(c.resolution_status, "unresolved")}}

\* edge_schema: edge type -> (labels allowed at its start, at its end)
EdgeSchema(type) ==
    CASE type = "DECLARES" -> <<{"Module"}, {"Class", "Function", "Variable"}>>
      [] type = "DEFINES" -> <<{"Class"}, {"Function"}>>
      [] type = "HAS_PARAMETER" -> <<{"Function"}, {"Parameter"}>>
      [] type = "CALLS" -> <<{"CallSite"}, {"Function"}>>
      [] type = "HAS_CALLSITE" -> <<{"Function"}, {"CallSite"}>>
      [] type = "INHERITS" -> <<{"Class"}, {"Class"}>>
      [] type = "IMPORTS" -> <<{"Module"}, {"Module"}>>
      [] type = "RETURNS_TYPE" -> <<{"Function"}, {"Type"}>>
      [] type = "RESOLVES_TO" -> <<{"CallSite"}, {"Function"}>>
      [] type = "HAS_TYPE" -> <<{"Parameter", "Variable"}, {"Type"}>>
      [] type = "CONTAINS" -> <<{"Module", "Class", "Function"},
                                {"Class", "Function", "Variable", "Parameter"}>>
      [] type = "ASSIGNS_TO" -> <<{"Function"}, {"Variable"}>>
      [] type = "READS_FROM" -> <<{"Function"}, {"Variable"}>>
      [] type = "ASSIGNED_TYPE" -> <<{"Variable"}, {"Type"}>>
      [] type = "IS_SUBTYPE_OF" -> <<{"Type"}, {"Type"}>>
      [] type = "HAS_DECORATOR" -> <<{"Function", "Class"}, {"Decorator"}>>
      [] type = "DECORATES" -> <<{"Decorator"}, {"Function", "Class"}>>
      [] type = "REFERENCES" -> <<{"Function", "Class", "Decorator"},
                                  {"Variable", "Function", "Class", "Decorator", "Type"}>>
      [] type = "UNRESOLVED_REFERENCE" -> <<{"Function", "Class", "Module"}, {"Unresolved"}>>
      [] OTHER -> <<{}, {}>>

SchemaEdgeTypes ==
    {"DECLARES", "DEFINES", "HAS_PARAMETER", "CALLS", "HAS_CALLSITE", "INHERITS",
     "IMPORTS", "RETURNS_TYPE", "HAS_TYPE", "RESOLVES_TO", "CONTAINS", "ASSIGNS_TO",
     "READS_FROM", "ASSIGNED_TYPE", "IS_SUBTYPE_OF", "HAS_DECORATOR", "DECORATES",
     "REFERENCES", "UNRESOLVED_REFERENCE"}

LabelsOf(S, id) == {n.label : n \in {m \in S.nodes : m.id = id}}

ValidateEdgeTypes(S) ==
    {Violation("structural", "edge_type", e.from, "error") :
        e \in {d \in S.edges :
                /\ d.type \in SchemaEdgeTypes
                /\ \/ LabelsOf(S, d.from) \cap EdgeSchema(d.type)[1] = {}
                   \/ LabelsOf(S, d.to) \cap EdgeSchema(d.type)[2] = {}}}

\* ids reached from the set by one or more edges of the given types
RECURSIVE ReachFrom(_, _, _)
ReachFrom(S, types, reached) ==
    LET more == reached \cup
                {e.to : e \in {d \in S.edges : d.type \in types /\ d.from \in reached}}
    IN  IF more = reached THEN reached ELSE ReachFrom(S, types, more)

OnCycle(S, types, id) ==
    id \in ReachFrom(S, types,
              {e.to : e \in {d \in S.edges : d.type \in types /\ d.from = id}})

\* the HAS_PARAMETER edges of a function that end at a Parameter
ParameterEdges(S, function_id) ==
    {e \in S.edges : /\ e.type = "HAS_PARAMETER"
                     /\ e.from = function_id
                     /\ "Parameter" \in LabelsOf(S, e.to)}

\* sorted(positions) == list(range(len(positions))): as many distinct
\* positions as edges, and they are 0 .. n-1
PositionsSequential(S, function_id) ==
    LET positions == {e.position : e \in ParameterEdges(S, function_id)}
        n == Cardinality(ParameterEdges(S, function_id))
    IN  positions = 0..(n - 1)

ParameterPositionViolations(S, functions) ==
    {Violation("structural", "parameter_positions", f.id, "error") :
        f \in {g \in functions : /\ ParameterEdges(S, g.id) # {}
                                 /\ ~PositionsSequential(S, g.id)}}

\* a Parameter that is not the target of HAS_PARAMETER from one Function
ParameterOwnershipViolations(S, parameters) ==
    {Violation("structural", "parameter_ownership", p.id, "error") :
        p \in {q \in parameters :
                Cardinality({f \in OfLabel(S, "Function") :
                    \E e \in S.edges : /\ e.type = "HAS_PARAMETER"
                                       /\ e.from = f.id /\ e.to = q.id}) # 1}}

\* edge types, parameter positions, circular call dependencies, circular
\* inheritance, parameter ownership
ValidateStructuralIntegrity(S) ==
    ValidateEdgeTypes(S)
    \cup ParameterPositionViolations(S, OfLabel(S, "Function"))
    \cup ParameterOwnershipViolations(S, OfLabel(S, "Parameter"))
    \cup
    {Violation("structural", "circular_calls", f.id, "error") :
        f \in {g \in OfLabel(S, "Function") :
                OnCycle(S, {"HAS_CALLSITE", "RESOLVES_TO"}, g.id)}}
    \cup
    {Violation("structural", "circular_inheritance", c.id, "error") :
        c \in {k \in OfLabel(S, "Class") : OnCycle(S, {"INHERITS"}, k.id)}}

ValidateStructuralIntegrityIncremental(S) ==
    ParameterPositionViolations(S, {f \in OfLabel(S, "Function") : f.changed})
    \cup ParameterOwnershipViolations(S, {p \in OfLabel(S, "Parameter") : p.changed})
    \cup
    {Violation("structural", "circular_inheritance", c.id, "error") :
        c \in {k \in OfLabel(S, "Class") : k.changed /\ OnCycle(S, {"INHERITS"}, k.id)}}

\* a public function without a return annotation; an annotation without its
\* RETURNS_TYPE edge; more than one RETURNS_TYPE edge
ReturnTypeViolations(S, functions) ==
    {Violation("typing", "missing_return_annotation", f.id, "warning") :
        f \in {g \in functions : g.return_type = <<>> /\ Head(g.name) # "_"}}

\* a parameter without a type annotation that is not self or cls: no
\* parameter of the files is annotated
UntypedParameterViolations(S, changed_only) ==
    {Violation("typing", "missing_parameter_annotation", e.to, "warning") :
        e \in {d \in S.edges :
                /\ d.type = "HAS_PARAMETER"
                /\ \E f \in OfLabel(S, "Function"), q \in OfLabel(S, "Parameter") :
                      /\ f.id = d.from /\ q.id = d.to
                      /\ q.name \notin {<<"self">>, <<"cls">>}
                      /\ changed_only => (f.changed \/ q.changed)}}

CheckReturnTypeConsistency(S) ==
    {Violation("typing", "multiple_return_types", f.id, "warning") :
        f \in {g \in OfLabel(S, "Function") :
                Cardinality(Targets(S, g.id, "RETURNS_TYPE", "Type")) > 1}}
    \cup
    {Violation("typing", "missing_returns_type_edge", f.id, "warning") :
        f \in {g \in OfLabel(S, "Function") :
                g.return_type # <<>> /\ Targets(S, g.id, "RETURNS_TYPE", "Type") = {}}}

\* cycles of IS_SUBTYPE_OF through the given types
SubtypeCycles(S, types) ==
    {Violation("typing", "circular_subtype", t.id, "error") :
        t \in {u \in types : OnCycle(S, {"IS_SUBTYPE_OF"}, u.id)}}

ValidateDataFlowConsistency(S) ==
    UntypedParameterViolations(S, FALSE)
    \cup ReturnTypeViolations(S, OfLabel(S, "Function"))
    \cup CheckReturnTypeConsistency(S)
    \cup SubtypeCycles(S, OfLabel(S, "Type"))

ValidateDataFlowConsistencyIncremental(S) ==
    UntypedParameterViolations(S, TRUE)
    \cup ReturnTypeViolations(S, {f \in OfLabel(S, "Function") : f.changed})
    \cup SubtypeCycles(S, {t \in OfLabel(S, "Type") : t.changed})

\* get_validation_report: the structural, reference and typing laws over
\* the whole store
ValidateAll(S) ==
    ValidateSignatureConservation(S)
    \cup ValidateStructuralIntegrity(S)
    \cup ValidateReferenceIntegrity(S)
    \cup ValidateDataFlowConsistency(S)

\* validate_incremental: the same laws over the nodes flagged changed
ValidateIncremental(S) ==
    ValidateStructuralIntegrityIncremental(S)
    \cup ValidateReferenceIntegrityIncremental(S)
    \cup ValidateSignatureConservationIncremental(S)
    \cup ValidateDataFlowConsistencyIncremental(S)

----------------------------------------------------------------------------
(* The real-time driver (realtime.py) and the indexing entry points        *)
(* (routers/index.py, main.py), over the store of the variables.           *)

Store == [nodes |-> nodes, edges |-> edges]

Op(op, path, clear) == [op |-> op, path |-> path, clear |-> clear]

\* the watcher started, no watcher task, no coroutine on the event loop, the
\* workflow at rest.  The task of _process_pending_changes is at "none"
\* (None or done), "sleep", "for" or "broadcast"; files is files_to_process,
\* and rested holds the paths whose change_time is not later than the call
\* of asyncio.sleep, so that they have rested when the sleep returns
loopIdle ==
    /\ pending = {}
    /\ debounce = [at |-> "none", files |-> <<>>, rested |-> {}]
    /\ deleted = <<>>
    /\ wf = [at |-> "idle", file |-> <<>>]
    /\ running = TRUE

\* no resolution in hand
resolveIdle ==
    /\ callee = <<>>
    /\ entity_map = <<>>
    /\ resolved = [done |-> FALSE, id |-> <<>>]

\* no websocket accepted, no broadcast running; the coroutine of broadcast is
\* at "idle", "for" (at the head of the for loop), "send" (suspended in
\* send_json) or "done" (returned); i counts the items the list iterator
\* has yielded, stayed holds the connections of the list when broadcast
\* began that were not removed since, sent and failed the connections whose
\* send_json returned and raised, removed those the last loop removed
wsIdle ==
    /\ active_connections = <<>>
    /\ accepted = {}
    /\ sending = [at |-> "idle", i |-> 0, connection |-> "", dead_connections |-> <<>>,
                  stayed |-> {}, sent |-> {}, failed |-> {}, removed |-> {}]

propIdle ==
    /\ iterations = 0
    /\ qi = 1
    /\ iteration_propagated = 0
    /\ total_propagated = 0
    /\ ppc = "off"
    /\ seed = {}
    /\ graph = [kind |-> "files", len |-> 0, cyclic |-> FALSE]

Init ==
    /\ fs = [f \in Files |-> "v1"]
    /\ nodes = {}
    /\ edges = {}
    /\ pc = "idle"
    /\ cur = <<>>
    /\ log = <<>>
    /\ lastOp = Op("none", <<>>, FALSE)
    /\ broadcast = "none"
    /\ validBefore = TRUE
    /\ propIdle
    /\ loopIdle
    /\ resolveIdle
    /\ wsIdle

\* an editor saves the file with another content
EditFile(f, v) ==
    /\ Source(f, v) # Source(f, fs[f])
    /\ fs' = [fs EXCEPT ![f] = v]
    /\ lastOp' = Op("edit", f, FALSE)
    /\ UNCHANGED <<nodes, edges, pc, cur, log, broadcast, validBefore>>
    /\ UNCHANGED propVars
    /\ UNCHANGED loopVars
    /\ UNCHANGED resolveVars
    /\ UNCHANGED wsVars

\* handle_file_change, step 1: self.db.delete_nodes_from_file(file_path)
HfcDelete(f) ==
    /\ pc = "idle"
    /\ LET S == DeleteNodesFromFile(Store, f)
       IN  nodes' = S.nodes /\ edges' = S.edges
    /\ pc' = "deleted"
    /\ cur' = f
    /\ log' = <<"delete">>
    /\ lastOp' = Op("handle_file_change", f, FALSE)
    /\ validBefore' = (ValidateAll(Store) = {})
    /\ UNCHANGED <<fs, broadcast>>
    /\ UNCHANGED propVars
    /\ UNCHANGED loopVars
    /\ UNCHANGED resolveVars
    /\ UNCHANGED wsVars

\* step 2: parse_file and build_graph
HfcBuild ==
    /\ pc = "deleted"
    /\ LET S == BuildGraph(Store, ParseFile(fs, cur))
       IN  nodes' = S.nodes /\ edges' = S.edges
    /\ pc' = "built"
    /\ log' = Append(log, "build")
    /\ lastOp' = Op("handle_file_change", cur, FALSE)
    /\ UNCHANGED <<fs, cur, broadcast, validBefore>>
    /\ UNCHANGED propVars
    /\ UNCHANGED loopVars
    /\ UNCHANGED resolveVars
    /\ UNCHANGED wsVars

\* step 3: mark_file_nodes_changed(file_path)
HfcMark ==
    /\ pc = "built"
    /\ nodes' = MarkFileNodesChanged(Store, cur).nodes
    /\ pc' = "marked"
    /\ log' = Append(log, "mark")
    /\ lastOp' = Op("handle_file_change", cur, FALSE)
    /\ UNCHANGED <<fs, edges, cur, broadcast, validBefore>>
    /\ UNCHANGED propVars
    /\ UNCHANGED loopVars
    /\ UNCHANGED resolveVars
    /\ UNCHANGED wsVars

\* step 4: propagate_changes_to_dependents()
HfcPropagate ==
    /\ pc = "marked"
    /\ nodes' = PropagateChangesToDependents(Store).nodes
    /\ pc' = "propagated"
    /\ log' = Append(log, "propagate")
    /\ lastOp' = Op("handle_file_change", cur, FALSE)
    /\ UNCHANGED <<fs, edges, cur, broadcast, validBefore>>
    /\ UNCHANGED propVars
    /\ UNCHANGED loopVars
    /\ UNCHANGED resolveVars
    /\ UNCHANGED wsVars

\* step 5: get_validation_report(), the full validation; it writes nothing
HfcValidate ==
    /\ pc = "propagated"
    /\ pc' = "validated"
    /\ log' = Append(log, "validate")
    /\ lastOp' = Op("handle_file_change", cur, FALSE)
    /\ UNCHANGED <<fs, nodes, edges, cur, broadcast, validBefore>>
    /\ UNCHANGED propVars
    /\ UNCHANGED loopVars
    /\ UNCHANGED resolveVars
    /\ UNCHANGED wsVars

\* step 6: get_changed_node_ids(); it writes nothing
HfcGetChangedNodeIds ==
    /\ pc = "validated"
    /\ pc' = "collected"
    /\ lastOp' = Op("handle_file_change", cur, FALSE)
    /\ UNCHANGED <<fs, nodes, edges, cur, log, broadcast, validBefore>>
    /\ UNCHANGED propVars
    /\ UNCHANGED loopVars
    /\ UNCHANGED resolveVars
    /\ UNCHANGED wsVars

\* step 7: self.db.clear_changed_markers().  CodeGraphDB has no such method:
\* the call raises AttributeError, the handler of "except Exception as
\* parse_error" broadcasts file_error, and handle_file_change returns
HfcClearChangedMarkers ==
    /\ pc = "collected"
    /\ pc' = "idle"
    /\ broadcast' = "file_error"
    /\ lastOp' = Op("handle_file_change", cur, FALSE)
    /\ UNCHANGED <<fs, nodes, edges, cur, log, validBefore>>
    /\ UNCHANGED propVars
    /\ UNCHANGED loopVars
    /\ UNCHANGED resolveVars
    /\ UNCHANGED wsVars

\* POST /index of routers/index.py: clear or delete, parse_file, build_graph
RouterIndexCode(f, clear) ==
    /\ pc = "idle"
    /\ LET S == BuildGraph(IF clear THEN ClearDatabase(Store)
                           ELSE DeleteNodesFromFile(Store, f),
                           ParseFile(fs, f))
       IN  nodes' = S.nodes /\ edges' = S.edges
    /\ lastOp' = Op("router_index_code", f, clear)
    /\ UNCHANGED <<fs, pc, cur, log, broadcast, validBefore>>
    /\ UNCHANGED propVars
    /\ UNCHANGED loopVars
    /\ UNCHANGED resolveVars
    /\ UNCHANGED wsVars

\* POST /index/directory: clear or delete under the directory,
\* parse_directory, build_graph
RouterIndexDirectory(clear, walk) ==
    /\ pc = "idle"
    /\ LET S == BuildGraph(IF clear THEN ClearDatabase(Store)
                           ELSE DeleteNodesFromFile(Store, WatchDir),
                           ParseDirectory(fs, walk))
       IN  nodes' = S.nodes /\ edges' = S.edges
    /\ lastOp' = Op("router_index_directory", WatchDir, clear)
    /\ UNCHANGED <<fs, pc, cur, log, broadcast, validBefore>>
    /\ UNCHANGED propVars
    /\ UNCHANGED loopVars
    /\ UNCHANGED resolveVars
    /\ UNCHANGED wsVars

\* POST /index of main.py: a file is deleted by prefix before it is parsed,
\* a directory is not ("we'll rely on MERGE to update existing nodes")
MainIndexCode(path, clear, walk) ==
    /\ pc = "idle"
    /\ LET before == IF clear THEN ClearDatabase(Store)
                     ELSE IF IsFile(path) THEN DeleteNodesFromFile(Store, path)
                     ELSE Store
           extraction == IF IsFile(path) THEN ParseFile(fs, path)
                         ELSE ParseDirectory(fs, walk)
           S == BuildGraph(before, extraction)
       IN  nodes' = S.nodes /\ edges' = S.edges
    /\ lastOp' = Op("main_index_code", path, clear)
    /\ UNCHANGED <<fs, pc, cur, log, broadcast, validBefore>>
    /\ UNCHANGED propVars
    /\ UNCHANGED loopVars
    /\ UNCHANGED resolveVars
    /\ UNCHANGED wsVars

Next ==
    \/ \E f \in Files, v \in Versions : EditFile(f, v)
    \/ \E f \in Files : HfcDelete(f)
    \/ HfcBuild
    \/ HfcMark
    \/ HfcPropagate
    \/ HfcValidate
    \/ HfcGetChangedNodeIds
    \/ HfcClearChangedMarkers
    \/ \E f \in Files, clear \in BOOLEAN : RouterIndexCode(f, clear)
    \/ \E clear \in BOOLEAN, walk \in WalkOrders : RouterIndexDirectory(clear, walk)
    \/ \E path \in Files \cup {WatchDir}, clear \in BOOLEAN :
          \E walk \in (IF path \in Files THEN {<<path>>} ELSE WalkOrders) :
             MainIndexCode(path, clear, walk)

Spec == Init /\ [][Next]_vars

\* the driver and the entry points over the project of z.py
InitParam ==
    /\ fs = [f \in {PathZ} |-> "v1"]
    /\ nodes = {}
    /\ edges = {}
    /\ pc = "idle"
    /\ cur = <<>>
    /\ log = <<>>
    /\ lastOp = Op("none", <<>>, FALSE)
    /\ broadcast = "none"
    /\ validBefore = TRUE
    /\ propIdle
    /\ loopIdle
    /\ resolveIdle
    /\ wsIdle

NextParam ==
    \/ \E v \in ParamVersions : EditFile(PathZ, v)
    \/ HfcDelete(PathZ)
    \/ HfcBuild
    \/ HfcMark
    \/ HfcPropagate
    \/ HfcValidate
    \/ HfcGetChangedNodeIds
    \/ HfcClearChangedMarkers
    \/ \E clear \in BOOLEAN : RouterIndexCode(PathZ, clear)
    \/ \E clear \in BOOLEAN : RouterIndexDirectory(clear, <<PathZ>>)
    \/ \E path \in {PathZ, WatchDir}, clear \in BOOLEAN :
          MainIndexCode(path, clear, <<PathZ>>)

SpecParam == InitParam /\ [][NextParam]_vars

\* the driver and the entry points over w.py of /pq, and the directory
\* endpoint over /p, which holds no Python file
InitSig ==
    /\ fs = [f \in {PathW} |-> "v0"]
    /\ nodes = {}
    /\ edges = {}
    /\ pc = "idle"
    /\ cur = <<>>
    /\ log = <<>>
    /\ lastOp = Op("none", <<>>, FALSE)
    /\ broadcast = "none"
    /\ validBefore = TRUE
    /\ propIdle
    /\ loopIdle
    /\ resolveIdle
    /\ wsIdle

NextSig ==
    \/ \E v \in SigVersions : EditFile(PathW, v)
    \/ HfcDelete(PathW)
    \/ HfcBuild
    \/ HfcMark
    \/ HfcPropagate
    \/ HfcValidate
    \/ HfcGetChangedNodeIds
    \/ HfcClearChangedMarkers
    \/ \E clear \in BOOLEAN : RouterIndexCode(PathW, clear)
    \/ \E clear \in BOOLEAN : RouterIndexDirectory(clear, <<>>)

SpecSig == InitSig /\ [][NextSig]_vars

----------------------------------------------------------------------------
(* propagate_changed_flag (db.py), one query at a time, on a store that     *)
(* holds a chain of dependencies whose first element has been marked by     *)
(* mark_nodes_changed.                                                      *)

ChainLen == 12

GraphKinds == {"imports", "inherits", "calls"}

GraphNode(label, id, flag) ==
    [label |-> label, id |-> id, name |-> id, qualified_name |-> id,
     location |-> <<>>, is_external |-> FALSE, return_type |-> <<>>,
     arg_count |-> 0, default_value |-> <<>>, changed |-> flag,
     resolution_status |-> "null"]

NodeId(tag, i) == <<tag, ToString(i)>>

\* module i+1 imports module i; the last module declares a function with a
\* parameter; a cycle closes the chain from module 0 to the last module
ImportChain(len, cyclic) ==
    [nodes |-> {GraphNode("Module", NodeId("m", i), FALSE) : i \in 0..(len - 1)}
               \cup {GraphNode("Function", NodeId("fn", 0), FALSE),
                     GraphNode("Parameter", NodeId("pa", 0), FALSE)},
     edges |-> {Edge(NodeId("m", i + 1), "IMPORTS", NodeId("m", i)) : i \in 0..(len - 2)}
               \cup (IF cyclic THEN {Edge(NodeId("m", 0), "IMPORTS", NodeId("m", len - 1))}
                     ELSE {})
               \cup {Edge(NodeId("m", len - 1), "DECLARES", NodeId("fn", 0)),
                     Edge(NodeId("fn", 0), "HAS_PARAMETER", NodeId("pa", 0))}]

\* class i+1 inherits class i; the last class has a method under DEFINES,
\* the edge the propagation reads, and one under DECLARES, the edge
\* _visit_class writes for a method
InheritChain(len, cyclic) ==
    [nodes |-> {GraphNode("Class", NodeId("c", i), FALSE) : i \in 0..(len - 1)}
               \cup {GraphNode("Function", NodeId("me", 0), FALSE),
                     GraphNode("Function", NodeId("md", 0), FALSE)},
     edges |-> {Edge(NodeId("c", i + 1), "INHERITS", NodeId("c", i)) : i \in 0..(len - 2)}
               \cup (IF cyclic THEN {Edge(NodeId("c", 0), "INHERITS", NodeId("c", len - 1))}
                     ELSE {})
               \cup {Edge(NodeId("c", len - 1), "DEFINES", NodeId("me", 0)),
                     Edge(NodeId("c", len - 1), "DECLARES", NodeId("md", 0))}]

\* function i+1 calls function i through call site i
CallChain(len, cyclic) ==
    LET sites == IF cyclic THEN 0..(len - 1) ELSE 0..(len - 2)
        caller(i) == NodeId("f", IF i = len - 1 THEN 0 ELSE i + 1)
    IN  [nodes |-> {GraphNode("Function", NodeId("f", i), FALSE) : i \in 0..(len - 1)}
                   \cup {GraphNode("CallSite", NodeId("s", i), FALSE) : i \in sites},
         edges |-> {Edge(caller(i), "HAS_CALLSITE", NodeId("s", i)) : i \in sites}
                   \cup {Edge(NodeId("s", i), "CALLS", NodeId("f", i)) : i \in sites}
                   \cup {Edge(NodeId("s", i), "RESOLVES_TO", NodeId("f", i)) : i \in sites}]

ChainGraph(g) ==
    IF g.kind = "imports" THEN ImportChain(g.len, g.cyclic)
    ELSE IF g.kind = "inherits" THEN InheritChain(g.len, g.cyclic)
    ELSE CallChain(g.len, g.cyclic)

ChainSeed(g) ==
    {NodeId(IF g.kind = "imports" THEN "m" ELSE IF g.kind = "inherits" THEN "c" ELSE "f", 0)}

\* mark_nodes_changed(node_ids): SET n.changed = true for the ids given
MarkNodesChanged(S, node_ids) == SetChanged(S, "any", node_ids)

InitProp ==
    /\ graph \in [kind : GraphKinds, len : 1..ChainLen, cyclic : BOOLEAN]
    /\ seed = ChainSeed(graph)
    /\ nodes = MarkNodesChanged(ChainGraph(graph), seed).nodes
    /\ edges = ChainGraph(graph).edges
    /\ iterations = 0
    /\ qi = 1
    /\ iteration_propagated = 0
    /\ total_propagated = 0
    /\ ppc = "while"
    /\ fs = [f \in Files |-> "v1"]
    /\ pc = "idle"
    /\ cur = <<>>
    /\ log = <<>>
    /\ lastOp = Op("none", <<>>, FALSE)
    /\ broadcast = "none"
    /\ validBefore = TRUE
    /\ loopIdle
    /\ resolveIdle
    /\ wsIdle

\* while iterations < max_iterations: iteration_propagated = 0
PropLoopEnter ==
    /\ ppc = "while"
    /\ LoopGuard(iterations)
    /\ ppc' = "query"
    /\ qi' = 1
    /\ iteration_propagated' = 0
    /\ UNCHANGED <<nodes, edges, iterations, total_propagated, seed, graph>>
    /\ UNCHANGED driverVars
    /\ UNCHANGED loopVars
    /\ UNCHANGED resolveVars
    /\ UNCHANGED wsVars

\* the loop condition fails
PropLoopExit ==
    /\ ppc = "while"
    /\ ~LoopGuard(iterations)
    /\ ppc' = "done"
    /\ UNCHANGED <<nodes, edges, iterations, qi, iteration_propagated,
                   total_propagated, seed, graph>>
    /\ UNCHANGED driverVars
    /\ UNCHANGED loopVars
    /\ UNCHANGED resolveVars
    /\ UNCHANGED wsVars

\* for query in propagation_queries: session.run(query); add its count
PropRunQuery ==
    /\ ppc = "query"
    /\ qi <= Len(PropagationQueries)
    /\ LET r == RunQuery(Store, PropagationQueries[qi])
       IN  /\ nodes' = r.store.nodes
           /\ iteration_propagated' = iteration_propagated + r.count
    /\ qi' = qi + 1
    /\ UNCHANGED <<edges, iterations, total_propagated, ppc, seed, graph>>
    /\ UNCHANGED driverVars
    /\ UNCHANGED loopVars
    /\ UNCHANGED resolveVars
    /\ UNCHANGED wsVars

\* if iteration_propagated == 0: break
PropBreak ==
    /\ ppc = "query"
    /\ qi > Len(PropagationQueries)
    /\ iteration_propagated = 0
    /\ ppc' = "done"
    /\ UNCHANGED <<nodes, edges, iterations, qi, iteration_propagated,
                   total_propagated, seed, graph>>
    /\ UNCHANGED driverVars
    /\ UNCHANGED loopVars
    /\ UNCHANGED resolveVars
    /\ UNCHANGED wsVars

\* total_propagated += iteration_propagated; iterations += 1
PropNextIteration ==
    /\ ppc = "query"
    /\ qi > Len(PropagationQueries)
    /\ iteration_propagated # 0
    /\ total_propagated' = total_propagated + iteration_propagated
    /\ iterations' = iterations + 1
    /\ ppc' = "while"
    /\ UNCHANGED <<nodes, edges, qi, iteration_propagated, seed, graph>>
    /\ UNCHANGED driverVars
    /\ UNCHANGED loopVars
    /\ UNCHANGED resolveVars
    /\ UNCHANGED wsVars

NextProp ==
    \/ PropLoopEnter
    \/ PropLoopExit
    \/ PropRunQuery
    \/ PropBreak
    \/ PropNextIteration

\* the call runs to its return
SpecProp == InitProp /\ [][NextProp]_vars /\ WF_vars(NextProp)

\* the store as mark_nodes_changed left it
SeedStore == [nodes |-> {[n EXCEPT !.changed = (n.id \in seed)] : n \in nodes},
              edges |-> edges]

\* the queries one at a time compute what propagate_changed_flag returns
PropStepsAgree ==
    ppc = "done" =>
        LET r == PropagateChangedFlagWith(SeedStore, PropagationQueries)
        IN  /\ r.store = Store
            /\ r.total = total_propagated
            /\ r.iterations = iterations

----------------------------------------------------------------------------
(* Properties                                                               *)

IndexOps == {"router_index_code", "router_index_directory", "main_index_code"}

\* the last operation on the store was a completed re-index that covers f
ReindexCompleted(f) ==
    \/ lastOp.op \in IndexOps /\ StartsWith(f, lastOp.path)
    \/ lastOp.op = "handle_file_change" /\ lastOp.path = f /\ pc = "built"

ProducedBy(n, extraction) ==
    \E i \in 1..Len(extraction.entities) :
        /\ extraction.entities[i].label = n.label
        /\ extraction.entities[i].id = n.id

\* C1: after a re-index of a file completes, whichever entry point ran it,
\* every node of the store located under the file was produced by the
\* latest extraction of the file; no node of an earlier version remains.
C1_NoStaleNodeAfterReindex ==
    \A f \in Files :
        ReindexCompleted(f) =>
            \A n \in nodes : StartsWith(n.location, f) => ProducedBy(n, ParseFile(fs, f))

FileReindex(op, f) ==
    /\ op.op \in {"router_index_code", "main_index_code"}
    /\ op.path = f

\* C2: a re-index of a file that directly follows an index of the same
\* unchanged file leaves the node set and the edge set as the first left them.
C2_ReindexIdempotent ==
    [][\A f \in Files :
          (FileReindex(lastOp, f) /\ FileReindex(lastOp', f) /\ ~lastOp'.clear)
              => (nodes' = nodes /\ edges' = edges)]_vars

DriverFinished == pc = "idle" /\ lastOp.op = "handle_file_change"

\* C3: the driver has run, for the event it finished, the six steps delete,
\* build, mark, propagate, validate, clear, in this order.
C3_DriverStepsInOrder ==
    DriverFinished =>
        log = <<"delete", "build", "mark", "propagate", "validate", "clear">>

\* C4: when the driver has finished an event, no node of the store is
\* flagged changed.
C4_NoChangedAfterEvent ==
    DriverFinished => GetChangedNodeIds(Store) = {}

\* no propagation rule could mark a further node
ClosedUnderRules(S) ==
    \A i \in 1..Len(PropagationQueries) : QueryRows(S, PropagationQueries[i]) = {}

\* C5: when propagation has finished, the changed set is closed under the
\* propagation rules, whatever the length of the dependency chain.
C5_PropagationClosed ==
    ppc = "done" => ClosedUnderRules(Store)

\* C6: propagation never starts an iteration after the tenth, and it
\* terminates, on every graph, cyclic ones included.
C6_PropagationTerminates ==
    /\ [](/\ iterations <= max_iterations
          /\ (ppc = "query" => iterations < max_iterations))
    /\ <>(ppc = "done")

\* propagation on a cyclic graph ended by the cap
C6_Witness ==
    /\ ppc = "done"
    /\ graph.cyclic
    /\ iterations = max_iterations

RECURSIVE Reverse(_)
Reverse(seq) == IF seq = <<>> THEN <<>> ELSE Append(Reverse(Tail(seq)), Head(seq))

RuleOrders == {PropagationQueries, Reverse(PropagationQueries)}

\* C7: the changed set at the end of propagation is the one every order of
\* the rules ends with.
C7_RuleOrderIrrelevant ==
    ppc = "done" =>
        \A order \in RuleOrders :
            GetChangedNodeIds(PropagateChangedFlagWith(SeedStore, order).store)
                = GetChangedNodeIds(Store)

\* C8: the graph satisfied the laws before the event; once the file is
\* rebuilt, marked and propagated, an incremental validation that reports
\* nothing implies a full validation that reports nothing.
C8_LocalToGlobal ==
    /\ (pc = "marked" /\ validBefore) =>
          LET P == PropagateChangedFlag(Store)
          IN  ValidateIncremental(P) = {} => ValidateAll(P) = {}
    /\ (pc = "propagated" /\ validBefore) =>
          (ValidateIncremental(Store) = {} => ValidateAll(Store) = {})

\* what handle_file_change leaves in the store: delete, build, mark, propagate
HandleFileChange(S, files, file_path) ==
    PropagateChangesToDependents(
        MarkFileNodesChanged(
            BuildGraph(DeleteNodesFromFile(S, file_path), ParseFile(files, file_path)),
            file_path))

\* C9: from a store at rest, the event of one file then the event of the
\* other ends in the same nodes, edges and resolutions as the other order.
C9_EventsCommute ==
    pc = "idle" =>
        \A afterX \in {HandleFileChange(Store, fs, PathX)},
           afterY \in {HandleFileChange(Store, fs, PathY)} :
            ClearChangedFlags(HandleFileChange(afterX, fs, PathY))
                = ClearChangedFlags(HandleFileChange(afterY, fs, PathX))

\* C10: the delete by location prefix of the driver keeps every external
\* Module placeholder of the store.
C10_PlaceholdersSurviveDelete ==
    [][(pc = "idle" /\ pc' = "deleted") =>
          \A n \in nodes : (n.label = "Module" /\ n.is_external) =>
              \E m \in nodes' : m.label = "Module" /\ m.id = n.id]_vars

ResolvesTo(S, cs) == {e \in S.edges : e.type = "RESOLVES_TO" /\ e.from = cs.id}

\* the resolution_status recorded for a call site: the property of the node
\* when the builder has set it, else the property of its RESOLVES_TO edge
ResolutionStatus(S, cs) ==
    IF cs.resolution_status # "null" THEN cs.resolution_status
    ELSE IF ResolvesTo(S, cs) # {} THEN "resolved"
    ELSE "null"

\* C11: in every store a build has left, a CallSite has at most one
\* RESOLVES_TO edge, and it has one exactly when its resolution_status is
\* resolved.
C11_ResolvesToMatchesStatus ==
    pc # "deleted" =>
        \A cs \in OfLabel(Store, "CallSite") :
            /\ Cardinality(ResolvesTo(Store, cs)) <= 1
            /\ (Cardinality(ResolvesTo(Store, cs)) = 1
                    <=> ResolutionStatus(Store, cs) = "resolved")


\* C12: every Function of the store that has HAS_PARAMETER edges carries on
\* them exactly the positions 0 .. n-1, each once.
C12_ParameterPositionsSequential ==
    \A f \in OfLabel(Store, "Function") :
        \A e1, e2 \in ParameterEdges(Store, f.id) :
            /\ e1.position \in 0..(Cardinality(ParameterEdges(Store, f.id)) - 1)
            /\ (e1.position = e2.position => e1 = e2)

----------------------------------------------------------------------------
(* The server's event loop.  The watchdog thread schedules coroutines on   *)
(* it (watcher.py); a coroutine runs until it awaits, and the only awaits  *)
(* of handle_file_change are the send_json of a broadcast.  The endpoints  *)
(* are coroutines of the same loop.  The workflow (workflow.py) runs in    *)
(* the process of the MCP server, over the same store.                     *)

MaxDeleted == 1

\* the project the watcher observes
LoopFiles == {PathY, PathZ}

\* a coroutine is between two awaits: it holds the loop
LoopFree == debounce.at # "for"

Coroutine(at, file) == [at |-> at, file |-> file]

\* the enumerations of a set, for the order of a dict or a list
RECURSIVE Orders(_)
Orders(F) ==
    IF F = {} THEN {<<>>}
    ELSE UNION {{<<f>> \o rest : rest \in Orders(F \ {f})} : f \in F}

InitLoop ==
    /\ fs = [f \in LoopFiles |-> "v1"]
    /\ nodes = {}
    /\ edges = {}
    /\ pc = "idle"
    /\ cur = <<>>
    /\ log = <<>>
    /\ lastOp = Op("none", <<>>, FALSE)
    /\ broadcast = "none"
    /\ validBefore = TRUE
    /\ propIdle
    /\ loopIdle
    /\ resolveIdle
    /\ wsIdle

\* on_modified, on_created -> _schedule_change: the file is saved, its path
\* is recorded with the time, and the debounce task is scheduled unless one
\* is there and not done; the observer delivers events while it runs
OnModified(f) ==
    /\ running
    /\ fs' = [fs EXCEPT ![f] = "v1"]
    /\ pending' = pending \cup {f}
    /\ debounce' = IF debounce.at = "none"
                   THEN [at |-> "sleep", files |-> <<>>, rested |-> pending \cup {f}]
                   ELSE [debounce EXCEPT !.rested = @ \ {f}]
    /\ UNCHANGED <<nodes, edges, pc, cur, log, lastOp, broadcast, validBefore,
                   deleted, wf, running>>
    /\ UNCHANGED propVars
    /\ UNCHANGED resolveVars
    /\ UNCHANGED wsVars

\* on_deleted: the file is removed, and handle_file_change is scheduled at
\* once, beside whatever the loop holds
OnDeleted(f) ==
    /\ running
    /\ fs[f] # "absent"
    /\ Len(deleted) < MaxDeleted
    /\ fs' = [fs EXCEPT ![f] = "absent"]
    /\ deleted' = Append(deleted, Coroutine("ready", f))
    /\ UNCHANGED <<nodes, edges, pc, cur, log, lastOp, broadcast, validBefore,
                   pending, debounce, wf, running>>
    /\ UNCHANGED propVars
    /\ UNCHANGED resolveVars
    /\ UNCHANGED wsVars

\* _process_pending_changes after the sleep: the files that have rested for
\* the debounce period leave _pending_changes, in the order of the dict; a
\* path recorded during the sleep has rested only if the loop woke late
ProcessPendingChanges(files_to_process) ==
    /\ debounce.at = "sleep"
    /\ LoopFree
    /\ debounce.rested \subseteq {files_to_process[i] : i \in 1..Len(files_to_process)}
    /\ pending' = pending \ {files_to_process[i] : i \in 1..Len(files_to_process)}
    /\ debounce' = [at |-> "for", files |-> files_to_process, rested |-> {}]
    /\ UNCHANGED <<fs, nodes, edges, pc, cur, log, lastOp, broadcast, validBefore,
                   deleted, wf, running>>
    /\ UNCHANGED propVars
    /\ UNCHANGED resolveVars
    /\ UNCHANGED wsVars

\* for file_path in files_to_process: await self.on_change_callback(file_path),
\* up to the await of the broadcast, which suspends when a client is connected
DebounceHandleFileChange(suspends) ==
    /\ debounce.at = "for"
    /\ debounce.files # <<>>
    /\ LET S == HandleFileChange(Store, fs, Head(debounce.files))
       IN  nodes' = S.nodes /\ edges' = S.edges
    /\ lastOp' = Op("handle_file_change", Head(debounce.files), FALSE)
    /\ broadcast' = "file_error"
    /\ debounce' = IF suspends THEN [debounce EXCEPT !.at = "broadcast"]
                   ELSE [debounce EXCEPT !.files = Tail(@)]
    /\ UNCHANGED <<fs, pc, cur, log, validBefore, pending, deleted, wf, running>>
    /\ UNCHANGED propVars
    /\ UNCHANGED resolveVars
    /\ UNCHANGED wsVars

\* send_json returns: handle_file_change returns, the for loop goes on
DebounceResume ==
    /\ debounce.at = "broadcast"
    /\ LoopFree
    /\ debounce' = [debounce EXCEPT !.at = "for", !.files = Tail(@)]
    /\ UNCHANGED <<fs, nodes, edges, pc, cur, log, lastOp, broadcast, validBefore,
                   pending, deleted, wf, running>>
    /\ UNCHANGED propVars
    /\ UNCHANGED resolveVars
    /\ UNCHANGED wsVars

\* the for loop is over: the task is done
DebounceDone ==
    /\ debounce.at = "for"
    /\ debounce.files = <<>>
    /\ debounce' = [at |-> "none", files |-> <<>>, rested |-> {}]
    /\ UNCHANGED <<fs, nodes, edges, pc, cur, log, lastOp, broadcast, validBefore,
                   pending, deleted, wf, running>>
    /\ UNCHANGED propVars
    /\ UNCHANGED resolveVars
    /\ UNCHANGED wsVars

\* the coroutine of on_deleted runs: handle_file_change up to the await of
\* the broadcast; the coroutines scheduled first start first
DeletedHandleFileChange(i, suspends) ==
    /\ i \in 1..Len(deleted)
    /\ deleted[i].at = "ready"
    /\ \A j \in 1..(i - 1) : deleted[j].at # "ready"
    /\ LoopFree
    /\ LET S == HandleFileChange(Store, fs, deleted[i].file)
       IN  nodes' = S.nodes /\ edges' = S.edges
    /\ lastOp' = Op("handle_file_change", deleted[i].file, FALSE)
    /\ broadcast' = "file_error"
    /\ deleted' = IF suspends THEN [deleted EXCEPT ![i].at = "broadcast"]
                  ELSE SubSeq(deleted, 1, i - 1) \o SubSeq(deleted, i + 1, Len(deleted))
    /\ UNCHANGED <<fs, pc, cur, log, validBefore, pending, debounce, wf, running>>
    /\ UNCHANGED propVars
    /\ UNCHANGED resolveVars
    /\ UNCHANGED wsVars

\* send_json returns: the coroutine is over
DeletedResume(i) ==
    /\ i \in 1..Len(deleted)
    /\ deleted[i].at = "broadcast"
    /\ LoopFree
    /\ deleted' = SubSeq(deleted, 1, i - 1) \o SubSeq(deleted, i + 1, Len(deleted))
    /\ UNCHANGED <<fs, nodes, edges, pc, cur, log, lastOp, broadcast, validBefore,
                   pending, debounce, wf, running>>
    /\ UNCHANGED propVars
    /\ UNCHANGED resolveVars
    /\ UNCHANGED wsVars

\* POST /index of routers/index.py without clear, a coroutine without await
EndpointIndexCode(f) ==
    /\ LoopFree
    /\ RouterIndexCode(f, FALSE)

\* validate_after_edit, for file_path in file_paths: delete_nodes_from_file
WorkflowDelete(f) ==
    /\ wf.at = "idle"
    /\ LET S == DeleteNodesFromFile(Store, f)
       IN  nodes' = S.nodes /\ edges' = S.edges
    /\ wf' = [at |-> "deleted", file |-> f]
    /\ lastOp' = Op("validate_after_edit", f, FALSE)
    /\ UNCHANGED <<fs, pc, cur, log, broadcast, validBefore, pending, debounce, deleted,
                   running>>
    /\ UNCHANGED propVars
    /\ UNCHANGED resolveVars
    /\ UNCHANGED wsVars

\* parse_file and build_graph of the same file
WorkflowBuild ==
    /\ wf.at = "deleted"
    /\ LET S == BuildGraph(Store, ParseFile(fs, wf.file))
       IN  nodes' = S.nodes /\ edges' = S.edges
    /\ wf' = [at |-> "idle", file |-> <<>>]
    /\ lastOp' = Op("validate_after_edit", wf.file, FALSE)
    /\ UNCHANGED <<fs, pc, cur, log, broadcast, validBefore, pending, debounce, deleted,
                   running>>
    /\ UNCHANGED propVars
    /\ UNCHANGED resolveVars
    /\ UNCHANGED wsVars

NextLoop ==
    \/ \E f \in LoopFiles : OnModified(f)
    \/ \E f \in LoopFiles : OnDeleted(f)
    \/ \E ready \in SUBSET pending : \E files_to_process \in Orders(ready) :
          ProcessPendingChanges(files_to_process)
    \/ \E suspends \in BOOLEAN : DebounceHandleFileChange(suspends)
    \/ DebounceResume
    \/ DebounceDone
    \/ \E i \in 1..MaxDeleted, suspends \in BOOLEAN : DeletedHandleFileChange(i, suspends)
    \/ \E i \in 1..MaxDeleted : DeletedResume(i)
    \/ \E f \in LoopFiles : EndpointIndexCode(f)
    \/ \E f \in LoopFiles : WorkflowDelete(f)
    \/ WorkflowBuild

SpecLoop == InitLoop /\ [][NextLoop]_vars

\* the invocations of handle_file_change that have begun and not returned
EventsInProgress ==
    (IF debounce.at = "broadcast" THEN {<<"debounce", Head(debounce.files)>>} ELSE {})
    \cup {<<"deleted", deleted[i].file>> :
            i \in {j \in 1..Len(deleted) : deleted[j].at = "broadcast"}}

\* C13: at any time at most one invocation of handle_file_change has begun
\* and not returned: an event is processed to its end before the next starts.
C13_OneEventAtATime == Cardinality(EventsInProgress) <= 1

\* C14: while the workflow is between the delete and the build of a file,
\* no other writer changes the store for that file's path: the writes of
\* two re-index operations of one path do not interleave.
C14_OneWriterPerFile ==
    [][(wf.at = "deleted" /\ wf' = wf /\ <<nodes, edges>>' # <<nodes, edges>>)
            => lastOp'.path # wf.file]_vars

----------------------------------------------------------------------------
(* The driver under faults: a write of the rebuild that the store refuses, *)
(* and the server process stopped between the delete and the rebuild.      *)

\* the entities without the one at index i
WithoutEntity(entities, i) ==
    SubSeq(entities, 1, i - 1) \o SubSeq(entities, i + 1, Len(entities))

\* build_graph when execute_query raises for the node of entities[failed]:
\* _create_node_cypher logs the exception and returns, the loops go on, and
\* the relationships of the missing node match nothing
BuildGraphWriteFails(S, extraction, failed) ==
    CreateRelationships(CreateNodes(S, WithoutEntity(extraction.entities, failed)),
                        extraction.relationships, extraction.entities)

\* step 2 with a refused write: build_graph returns normally
HfcBuildWriteFails(failed) ==
    /\ pc = "deleted"
    /\ LET S == BuildGraphWriteFails(Store, ParseFile(fs, cur), failed)
       IN  nodes' = S.nodes /\ edges' = S.edges
    /\ pc' = "built"
    /\ log' = Append(log, "store_error")
    /\ lastOp' = Op("handle_file_change", cur, FALSE)
    /\ UNCHANGED <<fs, cur, broadcast, validBefore>>
    /\ UNCHANGED propVars
    /\ UNCHANGED loopVars
    /\ UNCHANGED resolveVars
    /\ UNCHANGED wsVars

\* the server stops after step 1: the store keeps what the delete left, and
\* the driver starts again at rest
HfcCancel ==
    /\ pc = "deleted"
    /\ pc' = "idle"
    /\ log' = Append(log, "cancelled")
    /\ lastOp' = Op("cancel", cur, FALSE)
    /\ UNCHANGED <<fs, nodes, edges, cur, broadcast, validBefore>>
    /\ UNCHANGED propVars
    /\ UNCHANGED loopVars
    /\ UNCHANGED resolveVars
    /\ UNCHANGED wsVars

NextFault ==
    \/ \E f \in Files, v \in Versions : EditFile(f, v)
    \/ \E f \in Files : HfcDelete(f)
    \/ HfcBuild
    \/ \E failed \in (IF pc = "deleted" THEN 1..Len(ParseFile(fs, cur).entities)
                       ELSE {}) :
          HfcBuildWriteFails(failed)
    \/ HfcCancel
    \/ HfcMark
    \/ HfcPropagate
    \/ HfcValidate
    \/ HfcGetChangedNodeIds
    \/ HfcClearChangedMarkers

SpecFault == Init /\ [][NextFault]_vars

\* C15: once a write of the rebuild has failed, the handler records no later
\* step of that event: mark, propagate and validate do not run.
C15_StoreFailureAborts ==
    \A i \in 1..Len(log) :
        log[i] = "store_error" =>
            \A j \in (i + 1)..Len(log) : log[j] \notin {"mark", "propagate", "validate"}

\* the nodes the extractor produces for the file, under its path, are in S
SlicePresent(S, files, file_path) ==
    \A i \in 1..Len(ParseFile(files, file_path).entities) :
        LET entity == ParseFile(files, file_path).entities[i]
        IN  StartsWith(entity.location, file_path) =>
                \E n \in S.nodes : n.label = entity.label /\ n.id = entity.id

\* C16: after the processing of a file was cancelled between the delete and
\* the rebuild, the file's nodes are absent, and the next event the driver
\* processes, for whichever file, leaves the file's slice in the store.
C16_CancelledSliceRestored ==
    (pc = "idle" /\ lastOp = Op("cancel", cur, FALSE)) =>
        /\ \A n \in nodes : ~StartsWith(n.location, cur)
        /\ \A f \in Files :
              \A after \in {HandleFileChange(Store, fs, f)} :
                  SlicePresent(after, fs, cur)

\* C17: when the mark step follows the rebuild of an event, every node the
\* rebuild wrote for the file carries changed = true after it, Type nodes
\* and placeholder modules included.
C17_RebuiltNodesMarked ==
    [][(pc = "built" /\ pc' = "marked" /\ lastOp = Op("handle_file_change", cur, FALSE))
            => \A i \in 1..Len(ParseFile(fs, cur).entities) :
                  \E n \in nodes' :
                      /\ n.label = ParseFile(fs, cur).entities[i].label
                      /\ n.id = ParseFile(fs, cur).entities[i].id
                      /\ n.changed]_vars

\* C18: when propagation has ended, every Function at the end of a DECLARES
\* edge from a changed Class is changed.
C18_MethodsOfChangedClass ==
    ppc = "done" =>
        \A e \in edges :
            (/\ e.type = "DECLARES"
             /\ \E c \in OfLabel(Store, "Class") : c.id = e.from /\ c.changed)
            => \A f \in OfLabel(Store, "Function") : f.id = e.to => f.changed

\* C19: no step of propagate_changed_flag takes the changed flag from a node
\* that has it: the changed nodes after a step include those before it.
C19_ChangedNeverUnset ==
    [][\A n \in nodes :
          n.changed => \E m \in nodes' : m.label = n.label /\ m.id = n.id /\ m.changed]_vars

\* propagation has ended after marking nodes beyond the seed, which are
\* still marked
C19_Witness ==
    /\ ppc = "done"
    /\ total_propagated > 0
    /\ seed \subseteq Sel(Store, "any", TRUE)
    /\ Sel(Store, "any", TRUE) # seed

----------------------------------------------------------------------------
(* _resolve_function_name on extractions and stores where several          *)
(* functions match the name of a call: a function f and a method C.f of    *)
(* module a, a function f of module b, a function f of the package b.a.    *)

QualifiedNames ==
    { <<"a", ".", "f">>, <<"a", ".", "C", ".", "f">>,
      <<"b", ".", "f">>, <<"b", ".", "a", ".", "f">> }

CalleeNames == { <<"f">>, <<"C", ".", "f">>, <<"a", ".", "f">> }

\* the FunctionEntity of a qualified name
FunctionEntity(qualified_name) ==
    Entity("Function", MakeId(<<qualified_name>>), LastDotted(qualified_name),
           qualified_name, <<"/", "p">>)

\* the extractions of at most two functions, in each order of the dict
EntityMaps ==
    {<<>>}
    \cup {<<FunctionEntity(q)>> : q \in QualifiedNames}
    \cup {<<FunctionEntity(pair[1]), FunctionEntity(pair[2])>> :
            pair \in {p \in QualifiedNames \X QualifiedNames : p[1] # p[2]}}

\* the store holds functions of earlier builds, and the nodes of the
\* extraction, which build_graph creates before it resolves a call
InitResolve ==
    /\ callee \in CalleeNames
    /\ entity_map \in EntityMaps
    /\ resolved = [done |-> FALSE, id |-> <<>>]
    /\ \E earlier \in SUBSET QualifiedNames :
          /\ nodes = CreateNodes(
                        CreateNodes(EmptyStore,
                            CHOOSE order \in Orders({FunctionEntity(q) : q \in earlier}) :
                                TRUE),
                        entity_map).nodes
    /\ edges = {}
    /\ fs = [f \in Files |-> "v1"]
    /\ pc = "idle"
    /\ cur = <<>>
    /\ log = <<>>
    /\ lastOp = Op("none", <<>>, FALSE)
    /\ broadcast = "none"
    /\ validBefore = TRUE
    /\ propIdle
    /\ loopIdle
    /\ wsIdle

\* resolved_id = self._resolve_function_name(callee_name, entities)
ResolveCall ==
    /\ ~resolved.done
    /\ resolved' = [done |-> TRUE, id |-> ResolveFunctionName(Store, callee, entity_map)]
    /\ lastOp' = Op("_resolve_function_name", callee, FALSE)
    /\ UNCHANGED <<fs, nodes, edges, pc, cur, log, broadcast, validBefore,
                   callee, entity_map>>
    /\ UNCHANGED propVars
    /\ UNCHANGED loopVars
    /\ UNCHANGED wsVars

NextResolve == ResolveCall

SpecResolve == InitResolve /\ [][NextResolve]_vars

\* the functions of a set that the rule ranks first for the name: lowest
\* priority number, then shortest qualified name
RankedFirst(functions, callee_name) ==
    LET matching == {f \in functions : ResolvePriority(f, callee_name) < 3}
    IN  {f \in matching : \A g \in matching :
            \/ ResolvePriority(f, callee_name) < ResolvePriority(g, callee_name)
            \/ /\ ResolvePriority(f, callee_name) = ResolvePriority(g, callee_name)
               /\ Len(f.qualified_name) <= Len(g.qualified_name)}

EntityFunctions ==
    {entity_map[i] : i \in {j \in 1..Len(entity_map) : entity_map[j].label = "Function"}}

\* C20: the function a call resolves to is ranked first by the rule among
\* the functions of the extraction that match the name, and when none of
\* them matches, among the functions of the store.
C20_ResolutionByPriority ==
    resolved.done =>
        IF RankedFirst(EntityFunctions, callee) # {}
        THEN resolved.id \in Ids(RankedFirst(EntityFunctions, callee))
        ELSE IF RankedFirst(OfLabel(Store, "Function"), callee) # {}
        THEN resolved.id \in Ids(RankedFirst(OfLabel(Store, "Function"), callee))
        ELSE resolved.id = <<>>

----------------------------------------------------------------------------
(* The edge table of the data model: edge type -> the labels allowed at    *)
(* its start and at its end; a type without a row allows none.             *)

AnyLabel ==
    {"Module", "Class", "Function", "Parameter", "Variable", "CallSite", "Type",
     "Decorator", "Unresolved"}

EdgeTable(type) ==
    CASE type = "DECLARES" -> <<{"Module", "Class"}, {"Class", "Function", "Variable"}>>
      [] type = "HAS_PARAMETER" -> <<{"Function"}, {"Parameter"}>>
      [] type = "HAS_CALLSITE" -> <<{"Function"}, {"CallSite"}>>
      [] type = "RESOLVES_TO" -> <<{"CallSite"}, {"Function"}>>
      [] type = "INHERITS" -> <<{"Class"}, {"Class"}>>
      [] type = "IMPORTS" -> <<{"Module"}, {"Module"}>>
      [] type = "HAS_TYPE" -> <<{"Parameter", "Variable"}, {"Type"}>>
      [] type = "RETURNS_TYPE" -> <<{"Function"}, {"Type"}>>
      [] type = "ASSIGNED_TYPE" -> <<{"Variable"}, {"Type"}>>
      [] type = "IS_SUBTYPE_OF" -> <<{"Type"}, {"Type"}>>
      [] type = "HAS_DECORATOR" -> <<{"Function", "Class"}, {"Decorator"}>>
      [] type = "DECORATES" -> <<{"Decorator"}, {"Function", "Class"}>>
      [] type = "ASSIGNS_TO" -> <<{"Function"}, {"Variable"}>>
      [] type = "READS_FROM" -> <<{"Function"}, {"Variable"}>>
      [] type = "REFERENCES" -> <<AnyLabel, AnyLabel>>
      [] type = "UNRESOLVED_REFERENCE" -> <<{"Function", "Class", "Module"}, {"Unresolved"}>>
      [] OTHER -> <<{}, {}>>

Admissible(S, e) ==
    /\ LabelsOf(S, e.from) \cap EdgeTable(e.type)[1] # {}
    /\ LabelsOf(S, e.to) \cap EdgeTable(e.type)[2] # {}

\* C21: every edge of the store, after any sequence of builds, joins a
\* source and a target whose labels the edge table allows for its type.
C21_EdgesAdmissible ==
    \A e \in edges : Admissible(Store, e)

\* C22: the store holds no relationship of type CALLS, DEFINES or CONTAINS,
\* whatever was built, calls that resolve included.
C22_NoOldRelationships ==
    \A e \in edges : e.type \notin {"CALLS", "DEFINES", "CONTAINS"}

----------------------------------------------------------------------------
(* The arity of a function as the signature law defines it: the parameters *)
(* of the function in the store (no function of the files is a method, so  *)
(* none drops a leading self or cls), and those of them without a default. *)

ParametersOf(f) ==
    {p \in OfLabel(Store, "Parameter") :
        \E e \in edges : e.type = "HAS_PARAMETER" /\ e.from = f.id /\ e.to = p.id}

\* the call sites of callers that reach f by HAS_CALLSITE then RESOLVES_TO
IncomingCallSites(f) ==
    {cs \in OfLabel(Store, "CallSite") :
        /\ \E e \in edges : e.type = "RESOLVES_TO" /\ e.from = cs.id /\ e.to = f.id
        /\ \E e \in edges : e.type = "HAS_CALLSITE" /\ e.to = cs.id
                            /\ e.from \in SelAny(Store, "Function")}

ViolationReported(f, cs) ==
    <<f.id, cs.id>> \in ArityMismatches(Store, OfLabel(Store, "Function"))

\* C23: for every function (none of the files is decorated) and every call
\* site of a caller that resolves to it, the argument count lies between
\* the required and the total parameters exactly when the full validation
\* reports no signature mismatch for that call.
C23_ArityIffNoViolation ==
    \A f \in OfLabel(Store, "Function") :
        \A cs \in IncomingCallSites(f) :
            (/\ Cardinality({p \in ParametersOf(f) : p.default_value = <<>>}) <= cs.arg_count
             /\ cs.arg_count <= Cardinality(ParametersOf(f)))
            <=> ~ViolationReported(f, cs)

\* C24: once w.py with "def f(*args, **kwargs)" is indexed, the arity check
\* of f counts no required and no total parameter, and no call of f, with
\* 0, 1, 2 or 3 arguments, is reported as a signature mismatch.
C24_StarOnlyAcceptsAnyCount ==
    (lastOp = Op("router_index_code", PathW, lastOp.clear) /\ fs[PathW] = "v3") =>
        \A f \in {g \in OfLabel(Store, "Function") : g.name = <<"f">>} :
            /\ RequiredParams(Store, f.id) = {}
            /\ ParamsToCheck(Store, f.id) = {}
            /\ \A cs \in IncomingCallSites(f) : ~ViolationReported(f, cs)

\* C25: the empty w.py indexed into the cleared store leaves exactly one
\* node, a Module, and no edge, and the full validation of that store
\* reports nothing.
C25_EmptyFileOneModuleNoViolation ==
    (lastOp = Op("router_index_code", PathW, TRUE) /\ fs[PathW] = "v0") =>
        /\ Cardinality(nodes) = 1
        /\ \A n \in nodes : n.label = "Module"
        /\ edges = {}
        /\ ValidateAll(Store) = {}

\* the nodes located under a file
NodesOfFile(N, f) == {n \in N : StartsWith(n.location, f)}

\* C26: a re-index of one file, without clear, leaves every node of the
\* other file as it was, and every RESOLVES_TO edge from a call site of the
\* other file to a function of the re-indexed file that still exists.
C26_ReindexKeepsOtherFiles ==
    [][\A f \in Files, other \in Files :
          (FileReindex(lastOp', f) /\ ~lastOp'.clear /\ other # f) =>
              /\ NodesOfFile(nodes, other) \subseteq nodes'
              /\ \A e \in edges :
                    (/\ e.type = "RESOLVES_TO"
                     /\ e.from \in Ids(NodesOfFile(nodes, other))
                     /\ e.to \in Ids(NodesOfFile(nodes, f))
                     /\ e.to \in Ids(NodesOfFile(nodes', f)))
                        => e \in edges']_vars

\* the location is the path, or a position in the file of that path, or in
\* a file under the directory of that path
UnderPath(location, path) ==
    \/ location = path
    \/ StartsWith(location, path \o <<":">>)
    \/ StartsWith(location, path \o <<"/">>)

\* C27: the delete of the directory endpoint over /p, without clear, takes
\* no node away that is not located in /p: the nodes of /pq/w.py stay.
C27_DeleteOnlyUnderPath ==
    [][(lastOp'.op = "router_index_directory" /\ ~lastOp'.clear) =>
          \A n \in nodes : ~UnderPath(n.location, lastOp'.path) => n \in nodes']_vars

\* ---------------------------------------------------------------------------
\* The watcher alone, from start() to stop(), with the event loop's fairness
\* ---------------------------------------------------------------------------

\* FileWatcher.stop, called on the event loop by the route stop_watching:
\* the observer is stopped and joined, the handler is dropped and _running
\* is cleared; the handler's _debounce_task, its _pending_changes and the
\* coroutines already handed to the loop are left
Stop ==
    /\ running
    /\ LoopFree
    /\ running' = FALSE
    /\ UNCHANGED <<fs, nodes, edges, pc, cur, log, lastOp, broadcast, validBefore,
                   pending, debounce, deleted, wf>>
    /\ UNCHANGED propVars
    /\ UNCHANGED resolveVars
    /\ UNCHANGED wsVars

\* a step of the watcher's tasks on the asyncio event loop
LoopStep ==
    \/ \E ready \in SUBSET pending : \E files_to_process \in Orders(ready) :
          ProcessPendingChanges(files_to_process)
    \/ \E suspends \in BOOLEAN : DebounceHandleFileChange(suspends)
    \/ DebounceResume
    \/ DebounceDone
    \/ \E i \in 1..MaxDeleted, suspends \in BOOLEAN : DeletedHandleFileChange(i, suspends)
    \/ \E i \in 1..MaxDeleted : DeletedResume(i)

NextWatch ==
    \/ \E f \in LoopFiles : OnModified(f)
    \/ \E f \in LoopFiles : OnDeleted(f)
    \/ LoopStep
    \/ Stop

\* DebounceHandleFileChange seen on the position of the debounce task: the
\* callback of the head of files_to_process begins, and suspends or returns
DebounceRuns ==
    /\ debounce.at = "for"
    /\ debounce.files # <<>>
    /\ debounce' \in {[debounce EXCEPT !.at = "broadcast"],
                      [debounce EXCEPT !.files = Tail(@)]}

\* DeletedHandleFileChange seen on the positions of the coroutines of
\* on_deleted: the first ready one begins, and suspends or returns
DeletedRuns ==
    /\ LoopFree
    /\ \E i \in 1..Len(deleted) :
          /\ deleted[i].at = "ready"
          /\ \A j \in 1..(i - 1) : deleted[j].at # "ready"
          /\ deleted' \in {[deleted EXCEPT ![i].at = "broadcast"],
                           SubSeq(deleted, 1, i - 1) \o SubSeq(deleted, i + 1, Len(deleted))}

\* the event loop: a timer that is due fires, a task that is ready runs to
\* its next await
LoopFairness ==
    /\ WF_vars(\E ready \in SUBSET pending : \E files_to_process \in Orders(ready) :
                  ProcessPendingChanges(files_to_process))
    /\ WF_debounce(DebounceRuns)
    /\ WF_vars(DebounceResume)
    /\ WF_vars(DebounceDone)
    /\ WF_deleted(DeletedRuns)
    /\ WF_vars(\E i \in 1..MaxDeleted : DeletedResume(i))

\* the loop runs what is ready; nothing obliges the file system to change
SpecWatch == InitLoop /\ [][NextWatch]_vars /\ LoopFairness

\* the path is recorded for the debounce task, or picked by it and its
\* callback not yet begun
Waiting(f) ==
    \/ f \in pending
    \/ /\ debounce.at = "for"
       /\ \E i \in 1..Len(debounce.files) : debounce.files[i] = f
    \/ /\ debounce.at = "broadcast"
       /\ \E i \in 2..Len(debounce.files) : debounce.files[i] = f

\* a file-system event reaches the handler
FileSystemEvent == \E f \in LoopFiles : OnModified(f) \/ OnDeleted(f)

\* C28: every change the watcher has recorded leads in the end to the change
\* callback for that path once the file-system events have stopped and while
\* the watcher is not stopped, also when it was recorded while the debounce
\* task slept or ran callbacks.
C28_PendingEventuallyProcessed ==
    \/ []<><<FileSystemEvent>>_vars
    \/ <>(~running)
    \/ \A f \in LoopFiles : (f \in pending) ~> ~Waiting(f)

\* C29: once stop() has returned the change callback is not invoked: the
\* debounce task scheduled before the stop does not begin the callback of a
\* pending change while the watcher is stopped.
C29_NoCallbackAfterStop ==
    [][~running => ~DebounceRuns]_vars

----------------------------------------------------------------------------
(* The ConnectionManager of the websocket router                           *)

Connections == {"c1", "c2", "c3"}

\* the coroutine of broadcast is not running: it has not begun, is suspended
\* in send_json, or has returned
WsLoopFree == sending.at # "for"

Connected == {active_connections[k] : k \in 1..Len(active_connections)}

\* connect: after websocket.accept(), active_connections.append(websocket)
Connect(websocket) ==
    /\ WsLoopFree
    /\ websocket \notin accepted
    /\ accepted' = accepted \cup {websocket}
    /\ active_connections' = Append(active_connections, websocket)
    /\ UNCHANGED <<sending, nodes, edges>>
    /\ UNCHANGED driverVars
    /\ UNCHANGED propVars
    /\ UNCHANGED loopVars
    /\ UNCHANGED resolveVars

\* disconnect, called by websocket_endpoint when its client has gone:
\* if websocket in active_connections: active_connections.remove(websocket)
Disconnect(websocket) ==
    /\ WsLoopFree
    /\ websocket \in Connected
    /\ active_connections' = SelectSeq(active_connections, LAMBDA c : c # websocket)
    /\ sending' = IF sending.at = "send"
                  THEN [sending EXCEPT !.stayed = @ \ {websocket}]
                  ELSE sending
    /\ UNCHANGED <<accepted, nodes, edges>>
    /\ UNCHANGED driverVars
    /\ UNCHANGED propVars
    /\ UNCHANGED loopVars
    /\ UNCHANGED resolveVars

\* broadcast is called: it returns at once when the list is empty, else
\* dead_connections = [] and the for loop takes an iterator of the list
Broadcast ==
    /\ sending.at \in {"idle", "done"}
    /\ active_connections # <<>>
    /\ sending' = [at |-> "for", i |-> 0, connection |-> "", dead_connections |-> <<>>,
                   stayed |-> Connected, sent |-> {}, failed |-> {}, removed |-> {}]
    /\ UNCHANGED <<active_connections, accepted, nodes, edges>>
    /\ UNCHANGED driverVars
    /\ UNCHANGED propVars
    /\ UNCHANGED loopVars
    /\ UNCHANGED resolveVars

\* for connection in self.active_connections: the list iterator yields the
\* item at its index, and await connection.send_json(message) suspends
BroadcastSend ==
    /\ sending.at = "for"
    /\ sending.i < Len(active_connections)
    /\ sending' = [sending EXCEPT !.at = "send", !.i = @ + 1,
                                  !.connection = active_connections[sending.i + 1]]
    /\ UNCHANGED <<active_connections, accepted, nodes, edges>>
    /\ UNCHANGED driverVars
    /\ UNCHANGED propVars
    /\ UNCHANGED loopVars
    /\ UNCHANGED resolveVars

\* send_json returns, or raises and the connection joins dead_connections
BroadcastResume(raises) ==
    /\ sending.at = "send"
    /\ sending' = IF raises
                  THEN [sending EXCEPT !.at = "for",
                                       !.dead_connections = Append(@, sending.connection),
                                       !.failed = @ \cup {sending.connection}]
                  ELSE [sending EXCEPT !.at = "for",
                                       !.sent = @ \cup {sending.connection}]
    /\ UNCHANGED <<active_connections, accepted, nodes, edges>>
    /\ UNCHANGED driverVars
    /\ UNCHANGED propVars
    /\ UNCHANGED loopVars
    /\ UNCHANGED resolveVars

\* the iterator is exhausted: for connection in dead_connections:
\* self.disconnect(connection), and broadcast returns
BroadcastRemove ==
    /\ sending.at = "for"
    /\ sending.i >= Len(active_connections)
    /\ active_connections' =
           SelectSeq(active_connections,
                     LAMBDA c : \A k \in 1..Len(sending.dead_connections) :
                                    sending.dead_connections[k] # c)
    /\ sending' = [sending EXCEPT !.at = "done",
                                  !.removed = Connected \ {active_connections'[k] :
                                                  k \in 1..Len(active_connections')}]
    /\ UNCHANGED <<accepted, nodes, edges>>
    /\ UNCHANGED driverVars
    /\ UNCHANGED propVars
    /\ UNCHANGED loopVars
    /\ UNCHANGED resolveVars

InitWs ==
    /\ fs = [f \in Files |-> "absent"]
    /\ nodes = {}
    /\ edges = {}
    /\ pc = "idle"
    /\ cur = <<>>
    /\ log = <<>>
    /\ lastOp = Op("none", <<>>, FALSE)
    /\ broadcast = "none"
    /\ validBefore = TRUE
    /\ propIdle
    /\ loopIdle
    /\ resolveIdle
    /\ wsIdle

NextWs ==
    \/ \E websocket \in Connections : Connect(websocket)
    \/ \E websocket \in Connections : Disconnect(websocket)
    \/ Broadcast
    \/ BroadcastSend
    \/ \E raises \in BOOLEAN : BroadcastResume(raises)
    \/ BroadcastRemove

SpecWs == InitWs /\ [][NextWs]_vars

\* C30: when a broadcast has returned, send_json was called on every
\* connection that was in the list from its beginning to its end, and the
\* connections it removed are those whose send failed, whatever clients
\* connected or disconnected while it was suspended on a send.
C30_BroadcastReachesAllThatStay ==
    sending.at = "done" =>
        /\ sending.stayed \subseteq sending.sent \cup sending.failed
        /\ sending.removed \subseteq sending.failed
        /\ sending.failed \cap Connected = {}

=============================================================================
